---------------------------- MODULE Spec2Model ----------------------------
(***************************************************************************)
(* gbulk: bulk backup of the repositories of a GitHub account.             *)
(*                                                                         *)
(* The module holds one state machine per part of the program:             *)
(*   Spec        BackupCommand.backup: the mapLimit pipeline               *)
(*               clone -> fetchLFS -> cleanRefs, and the end of run()      *)
(*   RunSpec     BackupCommand.run from its start to the listing call      *)
(*   SelectSpec  BackupCommand.run from the listing's answer to backup()   *)
(*   ListSpec    GithubAPI's recurseRepositories (pagination)              *)
(*   ShutdownSpec the command with graceful shutdown: run(), the pipeline  *)
(*               and shutdown() on signals and on the 'exit' event         *)
(*   FilterSpec  commons.handleExclusions / handleInclusions               *)
(*   ResolveSpec commons.buildFetchOptions                                 *)
(*   LfsSpec     handleLFSOption followed by the pipeline                  *)
(*   ParseSpec   the parsing of the command line into this.flags           *)
(*   AuthSpec    gbulk login, gbulk logout and the authentication check of *)
(*               gbulk backup, run one after the other                     *)
(*   HangSpec    the pipeline with an external operation that never returns*)
(*   CleanSpec   Git.cleanRefs run on one mirror, as BackupCommand.cleanRefs*)
(*               reports it                                                *)
(* The variables of the parts a specification does not run stay at their   *)
(* initial (idle) values.                                                  *)
(***************************************************************************)
EXTENDS Integers, Sequences, FiniteSets, TLC

\* Bounds of the model.
MaxRepos == 3
MaxParallel == 3
MaxPages == 3
MaxRecords == 3
MaxBackups == 2
MaxInterrupts == 2
MaxCleanups == 2
MaxCommands == 3

VARIABLES
  \* ---- BackupCommand.run (src/src/commands/backup.js) ----
  auth,         \* config.get('auth'): the stored token and user, or the empty object
  from,         \* this.args.from
  flags,        \* this.flags
  options,      \* the local `options` of run()
  accountType,  \* the type run() handed to buildFetchOptions, "none" before
  requests,     \* the HTTP requests issued so far, oldest first
  repositories, \* the local `repositories` of run()
  dispatched,   \* the argument of this.backup(...), Undefined before the call
  warnings,     \* the messages given to this.warn, oldest first
  destinationCreated, \* this.destinationCreated
  runPc,        \* where run() stands
  exitCode,     \* the exit code of the process, -1 while it runs
  \* ---- BackupCommand.backup (src/src/commands/backup.js) ----
  nRepos,       \* repositories.length; the repositories are 1..nRepos in array order
  pc,           \* per repository: where its iterator stands
  calls,        \* per repository: how often Git.clone, Git.LFS.fetch, Git.cleanRefs were invoked
  cloneExit,    \* per repository: how Git.clone ended
  cloneDebug,   \* per repository: what clone() gave to this.debug about a failure
  lfsResult,    \* per repository: how Git.LFS.fetch ended
  refsResult,   \* per repository: what happened inside Git.cleanRefs
  warn,         \* per repository: the warn object of the iterator
  text,         \* per repository: what the spinner of the repository last showed
  backupCount,  \* the counter shown in the global spinner
  \* ---- recurseRepositories (src/src/lib/github-api.js) ----
  listPc,       \* where the listing stands
  served,       \* the responses the service gave to the listing, oldest first
  acc,          \* the `repositories` parameter of the pending recursive call
  result,       \* what the listing returned, Undefined before
  debugLog,     \* the pull-right reports the listing gave to debug(), oldest first
  \* ---- the process and its destination directory ----
  destination,  \* the destination path: "absent", "unwritable", "empty" or "nonEmpty"
  cancelled,    \* whether 'Backup cancelled!' was logged
  interrupts,   \* the number of interrupt signals handled so far
  \* ---- git on the machine and in one cloned mirror (src/src/lib/git.js) ----
  hasLFS,       \* what Git.LFS.check() answered to handleLFSOption, "unset" before
  mirror,       \* the refs of the mirror
  cleanups,     \* the runs of BackupCommand.cleanRefs on the mirror, oldest first
  \* ---- the commands run one after the other on the same configuration ----
  history,      \* the commands that have ended, oldest first
  \* ---- promptSearchFilters (src/src/commons.js) ----
  filters       \* the filters ticked in the prompt of the interactive mode

runVars == <<auth, from, flags, options, accountType, requests, repositories, dispatched,
             warnings, destinationCreated, runPc, exitCode>>

pipeVars == <<nRepos, pc, calls, cloneExit, cloneDebug, lfsResult, refsResult, warn, text, backupCount>>

listVars == <<listPc, served, acc, result, debugLog>>

procVars == <<destination, cancelled, interrupts>>

gitVars == <<hasLFS, mirror, cleanups>>

\* No command has ended yet and no prompt was answered.
ShellIdle == history = <<>> /\ filters = {}

\* What run() holds besides its position and the exit code.
runIO == <<auth, from, flags, options, accountType, requests, repositories, dispatched,
           warnings, destinationCreated>>

vars == <<runVars, pipeVars, listVars, procVars, gitVars, history, filters>>

(***************************************************************************)
(* JavaScript values                                                       *)
(***************************************************************************)

Undefined == [kind |-> "undefined"]

Str(s) == [kind |-> "string", v |-> s]

Array(items) == [kind |-> "array", items |-> items]

\* ToBoolean, for the kinds of value the program tests.
isTruthy(x) ==
  CASE x.kind = "undefined" -> FALSE
    [] x.kind = "string"    -> x.v # ""
    [] OTHER                -> TRUE

\* ToString, as string concatenation applies it.
toString(x) ==
  CASE x.kind = "undefined" -> "undefined"
    [] x.kind = "string"    -> x.v
    [] x.kind = "array"     -> "[array]"
    [] OTHER                -> "[object Object]"

\* A boolean flag of the command line is "true", "false" (its --no- variant)
\* or "unset" (undefined).
Tri == {"unset", "true", "false"}

on(f) == f = "true"

Repos == 1..nRepos

Min(S) == CHOOSE x \in S : \A y \in S : x <= y

(***************************************************************************)
(* commons (src/src/commons.js)                                            *)
(***************************************************************************)

\* checkAuth: `auth && auth.token && auth.user`; the erased authentication
\* (config.set('auth', {})) has neither.
LoggedOut == [token |-> "", user |-> ""]

authenticated(a) == a.token # "" /\ a.user # ""

\* The filters promptSearchFilters offers.
Filters == {"public", "private", "owner", "collaborator", "member"}

affiliationFlags == <<"owner", "collaborator", "member">>

\* this.flags[flag] for an affiliation flag.
flagOf(fl, flag) ==
  CASE flag = "owner"        -> fl.owner
    [] flag = "collaborator" -> fl.collaborator
    [] flag = "member"       -> fl.member

\* Array.prototype.join
RECURSIVE join(_, _)
join(seq, sep) ==
  IF seq = <<>> THEN ""
  ELSE IF Len(seq) = 1 THEN seq[1]
  ELSE seq[1] \o sep \o join(Tail(seq), sep)

\* A variant of the mapping to the API's names that maps nothing.
apiAffiliationUnmapped(affs) == affs

\* affiliation.map((aff) => (aff === 'member' ? 'organization_member' : aff))
apiAffiliation(affs) ==
  [i \in 1..Len(affs) |-> IF affs[i] = "member" THEN "organization_member" ELSE affs[i]]

\* A variant of the affiliation array without the first pass.
affiliationNotDisabled(fl) == SelectSeq(affiliationFlags, LAMBDA f : flagOf(fl, f) # "false")

\* A variant of the affiliation array without the second pass.
affiliationEnabledOnly(fl) == SelectSeq(affiliationFlags, LAMBDA f : on(flagOf(fl, f)))

\* buildFetchOptions, type 'Authenticated': the affiliation array.
affiliation(fl) ==
  LET enabled == SelectSeq(affiliationFlags, LAMBDA f : on(flagOf(fl, f)))
      notDisabled == SelectSeq(affiliationFlags, LAMBDA f : flagOf(fl, f) # "false")
  IN IF enabled # <<>> THEN enabled ELSE notDisabled

\* A variant of the visibility in which public wins over private.
visibilityPublicFirst(fl) ==
  IF on(fl.public) THEN "public"
  ELSE IF on(fl.private) THEN "private"
  ELSE "all"

\* buildFetchOptions, type 'Authenticated': the visibility.
visibility(fl) ==
  IF on(fl.public) /\ ~on(fl.private) THEN "public"
  ELSE IF on(fl.private) /\ ~on(fl.public) THEN "private"
  ELSE "all"

\* A variant of the User type parameter in which member wins over owner.
userTypeParamMemberFirst(fl) ==
  IF on(fl.member) THEN "member"
  ELSE IF on(fl.owner) THEN "owner"
  ELSE "all"

\* buildFetchOptions, type 'User': the type parameter.
userTypeParam(fl) ==
  IF on(fl.member) /\ ~on(fl.owner) THEN "member"
  ELSE IF on(fl.owner) /\ ~on(fl.member) THEN "owner"
  ELSE "all"

\* A variant of the Organization type parameter that does not look at member
\* for public and private.
orgTypeParamIgnoringMember(fl) ==
  IF on(fl.public) /\ ~on(fl.private) THEN "public"
  ELSE IF on(fl.private) /\ ~on(fl.public) THEN "private"
  ELSE IF on(fl.member) /\ ~on(fl.public) /\ ~on(fl.private) THEN "member"
  ELSE "all"

\* buildFetchOptions, type 'Organization': the type parameter.
orgTypeParam(fl) ==
  IF on(fl.public) /\ ~on(fl.private) /\ ~on(fl.member) THEN "public"
  ELSE IF on(fl.private) /\ ~on(fl.public) /\ ~on(fl.member) THEN "private"
  ELSE IF on(fl.member) /\ ~on(fl.public) /\ ~on(fl.private) THEN "member"
  ELSE "all"

\* commons.buildFetchOptions: the options object, or the CLIError of
\* this.error for a type it does not handle.
buildFetchOptions(type, fl) ==
  CASE type = "User" ->
         [kind |-> "object", type |-> type, params |-> [type |-> userTypeParam(fl)]]
    [] type = "Organization" ->
         [kind |-> "object", type |-> type, params |-> [type |-> orgTypeParam(fl)]]
    [] type = "Authenticated" ->
         [kind |-> "object", type |-> type,
          params |-> [affiliation |->
                        join(apiAffiliation(affiliation(fl)), ","),
                      visibility |-> visibility(fl)]]
    [] OTHER -> [kind |-> "error", message |-> "User type " \o type \o " is not handled."]

\* RegExp(pattern).test(string), for the patterns and the names of the model.
\* "^a$", "^(a|b)$" and "c" are the patterns a user writes for short names;
\* "me/" matches full names (owner/name) only.
regExpTest(pattern, string) ==
  CASE pattern = "^a$"      -> string = "a"
    [] pattern = "^(a|b)$"  -> string \in {"a", "b"}
    [] pattern = "c"        -> string \in {"c", "me/c"}
    [] pattern = "me/"      -> string \in {"me/a", "me/b", "me/c"}
    [] OTHER                -> FALSE

\* exclude.reduce(...) of handleExclusions: true if the repository is kept.
RECURSIVE excludeReduce(_, _, _)
excludeReduce(patterns, repo, accu) ==
  IF patterns = <<>> THEN accu
  ELSE excludeReduce(Tail(patterns), repo,
                     IF accu THEN ~regExpTest(Head(patterns), repo.name) ELSE accu)

\* A variant of the inclusion test that keeps a repository one pattern matches.
matchReduceAny(patterns, repo, accu) ==
  \E i \in 1..Len(patterns) : regExpTest(patterns[i], repo.name)

\* match.reduce(...) of handleInclusions: true if the repository is kept.
RECURSIVE matchReduce(_, _, _)
matchReduce(patterns, repo, accu) ==
  IF patterns = <<>> THEN accu
  ELSE matchReduce(Tail(patterns), repo,
                   IF accu THEN regExpTest(Head(patterns), repo.name) ELSE accu)

\* commons.handleExclusions on an array; on undefined it returns undefined
\* with no exclude pattern and throws a TypeError (undefined.filter) otherwise.
handleExclusions(fl, repos) ==
  IF fl.exclude # <<>>
  THEN IF repos.kind = "array"
       THEN Array(SelectSeq(repos.items, LAMBDA repo : excludeReduce(fl.exclude, repo, TRUE)))
       ELSE [kind |-> "error", message |-> "TypeError"]
  ELSE repos

\* commons.handleInclusions, likewise.
handleInclusions(fl, repos) ==
  IF fl.match # <<>>
  THEN IF repos.kind = "array"
       THEN Array(SelectSeq(repos.items, LAMBDA repo : matchReduce(fl.match, repo, TRUE)))
       ELSE [kind |-> "error", message |-> "TypeError"]
  ELSE repos

(***************************************************************************)
(* The methods of BackupCommand that call commons                          *)
(* (src/src/commands/backup.js 370-389, 282-287): each calls the common    *)
(* function and has no return statement, so it returns undefined unless    *)
(* the common function throws.                                             *)
(***************************************************************************)

\* A variant that also drops the error of the common function.
returnsNothingEver(value) == Undefined

returnsNothing(value) == IF value.kind = "error" THEN value ELSE Undefined

BackupCommand_buildFetchOptions(type, fl) == returnsNothing(buildFetchOptions(type, fl))

BackupCommand_handleExclusions(fl, repos) == returnsNothing(handleExclusions(fl, repos))

BackupCommand_handleInclusions(fl, repos) ==
  IF repos.kind = "error" THEN repos ELSE returnsNothing(handleInclusions(fl, repos))

(***************************************************************************)
(* GithubAPI (src/src/lib/github-api.js)                                   *)
(***************************************************************************)

base == "https://api.github.com"

\* GithubAPI.get.user = async function getUser(token, user): the request it
\* sends, or its error when no token is given.
getUser(token, user) ==
  IF ~isTruthy(token)
  THEN [kind |-> "error", message |-> "No token provided @getUser"]
  ELSE [kind |-> "request", api |-> "get.user",
        url |-> IF ~isTruthy(user) THEN base \o "/user" ELSE base \o "/users/" \o toString(user),
        params |-> Undefined,
        authorization |-> "token " \o toString(token)]

\* GithubAPI.get.repositories = async function getRepositories({ token, from,
\* options }): without token it throws; without `from` it lists /user/repos
\* with `options` as query parameters; for any `from` it returns [].
getRepositories(data) ==
  IF ~isTruthy(data.token)
  THEN [kind |-> "error", message |-> "No token provided @getAuthenticatedUserRepositories"]
  ELSE IF ~isTruthy(data.from)
  THEN [kind |-> "request", api |-> "get.repositories",
        url |-> base \o "/user/repos",
        params |-> data.options,
        authorization |-> "token " \o toString(data.token)]
  ELSE Array(<<>>)

(***************************************************************************)
(* Git (src/src/lib/git.js)                                                *)
(***************************************************************************)

\* How `git clone --mirror` can end: exit 0, exit 128 (destination exists and
\* is not empty), any other failure.
CloneExits == {"0", "128", "other"}

\* How `git lfs fetch --all` can end.
LFSExits == {"ok", "failed"}

\* What Git.cleanRefs can meet: show-ref lists refs with or without a /pull/
\* ref, show-ref exits 1, show-ref fails otherwise; with /pull/ refs, every
\* update-ref -d succeeds or one of them fails.
RefsEvents == {"pullDeleted", "noPull", "showRefExit1", "showRefFailed", "deleteFailed"}

\* Git.cleanRefs: "true" / "false" are its return values, "throw" a rejection.
\* show-ref exit 1 returns false; any other show-ref failure is swallowed and
\* leaves refs = '', so that nothing is deleted and true is returned; a failing
\* update-ref rejects.
cleanGithubRefs(ev) ==
  CASE ev = "showRefExit1"  -> "false"
    [] ev = "showRefFailed" -> "true"
    [] ev = "noPull"        -> "true"
    [] ev = "pullDeleted"   -> "true"
    [] ev = "deleteFailed"  -> "throw"

(***************************************************************************)
(* BackupCommand.clone / fetchLFS / cleanRefs                              *)
(***************************************************************************)

\* BackupCommand.clone: the spinner text it leaves (only when not quiet); it
\* rethrows every failure of Git.clone.
cloneText(exit, quiet) ==
  IF quiet THEN "none"
  ELSE CASE exit = "0"   -> "Cloned"
         [] exit = "128" -> "failed to clone: destination path exists and is not empty"
         [] OTHER        -> "failed to clone"

\* A variant that reports the failure only when it also shows it.
cloneDebugOnlyShown(exit, quiet) ==
  IF exit = "128" /\ ~quiet
  THEN "failed to clone: destination path exists and is not empty"
  ELSE "none"

\* BackupCommand.clone: the message it gives to this.debug in its catch
\* (exit code 128 only, quiet or not).
cloneDebugMessage(exit, quiet) ==
  IF exit = "128"
  THEN "failed to clone: destination path exists and is not empty"
  ELSE "none"

\* BackupCommand.fetchLFS: true if a warning was raised.
fetchLFS(exit) == exit # "ok"

\* BackupCommand.cleanRefs: true if a warning was raised.
cleanRefs(ev) == cleanGithubRefs(ev) = "throw"

\* BackupCommand.cleanRefs: what it reports.
cleanRefsText(ev) ==
  CASE cleanGithubRefs(ev) = "true"  -> "Refs cleaned"
    [] cleanGithubRefs(ev) = "false" -> "No ref to clean"
    [] OTHER                         -> "Failed to clean pull refs"

(***************************************************************************)
(* BackupCommand.backup: Promise.resolve(repositories).mapLimit(parallel,  *)
(* iterator). An iterator runs synchronously up to its next await, so each *)
(* action below is one continuation of one iterator, together with what    *)
(* mapLimit does when that iterator settles.                               *)
(***************************************************************************)

Stages == {"pending", "clone", "fetchLFS", "cleanRefs", "done"}

InFlight(p) == {r \in Repos : p[r] \in {"clone", "fetchLFS", "cleanRefs", "hung"}}

Pending(p) == {r \in Repos : p[r] = "pending"}

\* A single worker as soon as `parallel` allows one.
LimitSingle == IF flags.parallel >= 1 THEN 1 ELSE flags.parallel

\* Mutant of Limit: one iterator more than `parallel` is started.
LimitPlusOne == flags.parallel + 1

\* mapLimit starts at most `parallel` iterators at once.
Limit == flags.parallel

\* The iterators mapLimit starts from stage map p: the first elements of the
\* array not yet started, while fewer than Limit are in flight. An iterator
\* that starts runs into this.clone and awaits Git.clone.
RECURSIVE mapLimitStart(_)
mapLimitStart(p) ==
  IF Pending(p) # {} /\ Cardinality(InFlight(p)) < Limit
  THEN mapLimitStart([p EXCEPT ![Min(Pending(p))] = "clone"])
  ELSE p

\* Mutant of afterCloneFailure: the failure leaves the iterator and rejects
\* mapLimit, which starts no further element.
afterCloneFailureAbort(p, r) == [p EXCEPT ![r] = "done"]

\* Mutant of afterCloneFailure: the failed repository is queued again.
afterCloneFailureRetry(p, r) == mapLimitStart([p EXCEPT ![r] = "pending"])

\* The catch of the iterator (backup.js 569-571): the failure is logged and
\* the iterator resolves, so mapLimit goes on with the next element.
afterCloneFailure(p, r) == mapLimitStart([p EXCEPT ![r] = "done"])

\* Mutant of afterClone: ref-cleanup is run before the LFS fetch.
afterCloneRefsFirst ==
  IF on(flags.cleanRefs) THEN "cleanRefs" ELSE IF on(flags.lfs) THEN "fetchLFS" ELSE "done"

\* A variant that fetches the LFS objects whatever the flag says.
afterCloneAlwaysLFS == "fetchLFS"

\* The stage that follows a successful clone (backup.js 552-559).
afterClone == IF on(flags.lfs) THEN "fetchLFS" ELSE IF on(flags.cleanRefs) THEN "cleanRefs" ELSE "done"

\* The stage that follows fetchLFS, whatever it returned (backup.js 557-559).
afterLFS(lfsWarn) == IF on(flags.cleanRefs) THEN "cleanRefs" ELSE "done"

\* The iterator of r moves to stage s; when s is "done" it has resolved and
\* mapLimit starts the next element.
advance(p, r, s) ==
  IF s = "done" THEN mapLimitStart([p EXCEPT ![r] = "done"]) ELSE [p EXCEPT ![r] = s]

\* The Git operations invoked by a move from stage map p to stage map q made
\* by the iterator of r (0: none): the operation of the stage r has entered,
\* and the clone of every iterator that mapLimit has started.
invoked(p, q, r) ==
  [x \in Repos |->
    LET entered(s) == q[x] = s /\ (x = r \/ p[x] # s) IN
    [clone |-> calls[x].clone + (IF entered("clone") THEN 1 ELSE 0),
     lfs   |-> calls[x].lfs + (IF entered("fetchLFS") THEN 1 ELSE 0),
     refs  |-> calls[x].refs + (IF entered("cleanRefs") THEN 1 ELSE 0)]]

\* The spinner texts after a move: an iterator that starts shows "Cloning...".
shown(t, p, q) ==
  [r \in Repos |-> IF p[r] = "pending" /\ q[r] = "clone" /\ ~flags.quiet THEN "Cloning..." ELSE t[r]]

\* backup.js 561-568: the end of a try block that did not throw.
\* A variant in which every iterator adds one to the count it read when the
\* pipeline began.
countedFromStale(p, q, r) ==
  IF q[r] = "done" /\ ~flags.quiet THEN 1 ELSE backupCount

counted(p, q, r) ==
  IF q[r] = "done" /\ ~flags.quiet THEN backupCount + 1 ELSE backupCount

\* The stored authentication of a logged-in user.
LoggedIn == [token |-> "t0k3n", user |-> "me"]

\* The flags of a run that gives no filter.
NoFilterFlags ==
  [public |-> "unset", private |-> "unset", owner |-> "unset", collaborator |-> "unset",
   member |-> "unset", exclude |-> <<>>, match |-> <<>>, cleanRefs |-> "unset",
   lfs |-> "unset", quiet |-> FALSE, interactive |-> FALSE, parallel |-> 8]

\* The listing is not running.
ListIdle ==
  /\ listPc = "idle"
  /\ served = <<>>
  /\ acc = <<>>
  /\ result = Undefined
  /\ debugLog = <<>>

\* The destination directory exists and no signal has arrived.
ProcIdle ==
  /\ destination = "empty"
  /\ cancelled = FALSE
  /\ interrupts = 0

\* Git has not been asked anything and no mirror is looked at.
GitIdle ==
  /\ hasLFS = "unset"
  /\ mirror = {}
  /\ cleanups = <<>>

\* The pipeline has not been given its repositories.
PipeIdle ==
  /\ nRepos = 0
  /\ pc = <<>>
  /\ calls = <<>>
  /\ cloneExit = <<>>
  /\ cloneDebug = <<>>
  /\ lfsResult = <<>>
  /\ refsResult = <<>>
  /\ warn = <<>>
  /\ text = <<>>
  /\ backupCount = 0

\* backup(repositories) is entered with every iterator still to start.
PipeInit ==
  /\ nRepos \in 0..MaxRepos
  /\ pc = [r \in 1..nRepos |-> "pending"]
  /\ calls = [r \in 1..nRepos |-> [clone |-> 0, lfs |-> 0, refs |-> 0]]
  /\ cloneExit = [r \in 1..nRepos |-> "none"]
  /\ cloneDebug = [r \in 1..nRepos |-> "none"]
  /\ lfsResult = [r \in 1..nRepos |-> "none"]
  /\ refsResult = [r \in 1..nRepos |-> "none"]
  /\ warn = [r \in 1..nRepos |-> [lfs |-> FALSE, refs |-> FALSE]]
  /\ text = [r \in 1..nRepos |-> "none"]
  /\ backupCount = 0

\* run() is about to call this.backup: handleCleanRefOption and handleLFSOption
\* have settled the clean-refs and lfs flags, parallel is the parsed limit.
Init ==
  /\ PipeInit
  /\ ListIdle
  /\ auth = LoggedIn
  /\ from = "me"
  /\ \E l, c \in {"true", "false"}, q \in BOOLEAN, n \in 1..MaxParallel :
       flags = [NoFilterFlags EXCEPT !.lfs = l, !.cleanRefs = c, !.quiet = q, !.parallel = n]
  /\ options = Undefined
  /\ accountType = "Authenticated"
  /\ requests = <<>>
  /\ repositories = Undefined
  /\ dispatched = Undefined
  /\ warnings = <<>>
  /\ destinationCreated = FALSE
  /\ runPc = "backup"
  /\ exitCode = -1
  /\ destination \in {"empty", "nonEmpty"}
  /\ cancelled = FALSE
  /\ interrupts = 0
  /\ GitIdle
  /\ ShellIdle

\* run() calls this.backup(repositories): mapLimit starts its first iterators.
backup ==
  /\ runPc = "backup"
  /\ LET q == mapLimitStart(pc) IN
       /\ pc' = q
       /\ calls' = invoked(pc, q, 0)
       /\ text' = shown(text, pc, q)
  /\ runPc' = "mapLimit"
  /\ UNCHANGED <<runIO, listVars, nRepos, cloneExit, cloneDebug, lfsResult, refsResult, warn, backupCount, exitCode, procVars, gitVars, history, filters>>

\* Git.clone of r resolves: the mirror is written under the destination (git
\* creates the directories leading to it) and the iterator goes on to its
\* next stage.
CloneSucceeds(r) ==
  /\ runPc = "mapLimit"
  /\ pc[r] = "clone"
  /\ LET q == advance(pc, r, afterClone) IN
       /\ pc' = q
       /\ calls' = invoked(pc, q, r)
       /\ text' = shown([text EXCEPT ![r] = cloneText("0", flags.quiet)], pc, q)
       /\ backupCount' = counted(pc, q, r)
  /\ cloneExit' = [cloneExit EXCEPT ![r] = "0"]
  /\ cloneDebug' = cloneDebug
  /\ destination' = "nonEmpty"
  /\ UNCHANGED <<runIO, listVars, nRepos, lfsResult, refsResult, warn, runPc, exitCode,
                 cancelled, interrupts, gitVars, history, filters>>

\* Git.clone of r rejects: clone() reports and rethrows, backup() catches.
\* The failed clone may or may not have left something under the destination.
CloneFails(r) ==
  /\ runPc = "mapLimit"
  /\ pc[r] = "clone"
  /\ \E exit \in CloneExits \ {"0"} :
       /\ cloneExit' = [cloneExit EXCEPT ![r] = exit]
       /\ cloneDebug' = [cloneDebug EXCEPT ![r] = cloneDebugMessage(exit, flags.quiet)]
       /\ LET q == afterCloneFailure(pc, r) IN
            /\ pc' = q
            /\ calls' = invoked(pc, q, r)
            /\ text' = shown([text EXCEPT ![r] = cloneText(exit, flags.quiet)], pc, q)
  /\ destination' \in {destination, "nonEmpty"}
  /\ UNCHANGED <<runIO, listVars, nRepos, lfsResult, refsResult, warn, backupCount, runPc, exitCode,
                 cancelled, interrupts, gitVars, history, filters>>

\* Git.LFS.fetch of r settles.
LFSSettles(r) ==
  /\ runPc = "mapLimit"
  /\ pc[r] = "fetchLFS"
  /\ \E exit \in LFSExits :
       /\ lfsResult' = [lfsResult EXCEPT ![r] = exit]
       /\ warn' = [warn EXCEPT ![r].lfs = fetchLFS(exit)]
       /\ LET q == advance(pc, r, afterLFS(fetchLFS(exit))) IN
            /\ pc' = q
            /\ calls' = invoked(pc, q, r)
            /\ text' = shown([text EXCEPT ![r] =
                               IF flags.quiet THEN "none"
                               ELSE IF exit = "ok" THEN "LFS objects fetched"
                               ELSE "Failed to fetch LFS objects"], pc, q)
            /\ backupCount' = counted(pc, q, r)
  /\ UNCHANGED <<runIO, listVars, nRepos, cloneExit, cloneDebug, refsResult, runPc, exitCode, procVars, gitVars, history, filters>>

\* Git.cleanRefs of r settles (its show-ref and its update-ref calls touch
\* only the mirror of r and are taken as one step).
CleanRefsSettles(r) ==
  /\ runPc = "mapLimit"
  /\ pc[r] = "cleanRefs"
  /\ \E ev \in RefsEvents :
       /\ refsResult' = [refsResult EXCEPT ![r] = ev]
       /\ warn' = [warn EXCEPT ![r].refs = cleanRefs(ev)]
       /\ LET q == advance(pc, r, "done") IN
            /\ pc' = q
            /\ calls' = invoked(pc, q, r)
            /\ text' = shown([text EXCEPT ![r] =
                               IF flags.quiet THEN "none" ELSE cleanRefsText(ev)], pc, q)
            /\ backupCount' = counted(pc, q, r)
  /\ UNCHANGED <<runIO, listVars, nRepos, cloneExit, cloneDebug, lfsResult, runPc, exitCode, procVars, gitVars, history, filters>>

\* Every iterator has resolved: the mapLimit promise resolves and run() goes on
\* after `await this.backup(repositories)`.
BackupResolves ==
  /\ runPc = "mapLimit"
  /\ \A r \in Repos : pc[r] = "done"
  /\ runPc' = "backupComplete"
  /\ UNCHANGED <<runIO, listVars, nRepos, pc, calls, cloneExit, cloneDebug, lfsResult, refsResult, warn, text,
                 backupCount, exitCode, procVars, gitVars, history, filters>>

\* run() returns (backup.js 643-649): it sets no exit code and calls no
\* this.exit, so the process ends with status 0.
runReturns ==
  /\ runPc = "backupComplete"
  /\ runPc' = "exited"
  /\ exitCode' = 0
  /\ UNCHANGED <<runIO, listVars, nRepos, pc, calls, cloneExit, cloneDebug, lfsResult, refsResult, warn, text,
                 backupCount, procVars, gitVars, history, filters>>

PipeStep ==
  \/ backup
  \/ \E r \in Repos : CloneSucceeds(r)
  \/ \E r \in Repos : CloneFails(r)
  \/ \E r \in Repos : LFSSettles(r)
  \/ \E r \in Repos : CleanRefsSettles(r)
  \/ BackupResolves

Next ==
  \/ PipeStep
  \/ runReturns


Spec == Init /\ [][Next]_vars

(***************************************************************************)
(* BackupCommand.run, from its start to the answer of the listing          *)
(* (src/src/commands/backup.js 578-625)                                    *)
(***************************************************************************)

\* The accounts a run can name; "me" is the owner of the stored token.
Accounts == {"me", "alice", "acme"}

\* What GET /user or GET /users/:name answers: the account's type, or an error.
LookupAnswers == {"User", "Organization", "Bot", "error"}

\* An object literal { token, user }.
Obj(token, user) == [kind |-> "object", token |-> token, user |-> user]

\* this.error(message): the CLIError leaves run(), the process exits with 2.
\* Any other rejection of run() ends the process with 1.
failed(code) == runPc' = "failed" /\ exitCode' = code

\* run() starts: flags and arguments are parsed, nothing is done yet.
RunInit ==
  /\ PipeIdle
  /\ ListIdle
  /\ auth \in {LoggedIn, LoggedOut}
  /\ from \in (IF auth = LoggedIn THEN Accounts ELSE {"alice"})
  /\ \E pu, pr \in {"unset", "true"}, ow, co, me \in Tri, i, q \in BOOLEAN :
       /\ ~(i /\ q)
       /\ flags = [NoFilterFlags EXCEPT !.public = pu, !.private = pr, !.owner = ow,
                                        !.collaborator = co, !.member = me,
                                        !.interactive = i, !.quiet = q]
  /\ options = Undefined
  /\ accountType = "none"
  /\ requests = <<>>
  /\ repositories = Undefined
  /\ dispatched = Undefined
  /\ warnings = <<>>
  /\ destinationCreated = FALSE
  /\ runPc = "init"
  /\ exitCode = -1
  /\ destination \in {"absent", "unwritable", "empty", "nonEmpty"}
  /\ cancelled = FALSE
  /\ interrupts = 0
  /\ GitIdle
  /\ ShellIdle

\* this.checkAuth()
checkAuth ==
  /\ runPc = "init"
  /\ IF authenticated(auth)
     THEN runPc' = "checkGit" /\ exitCode' = exitCode
     ELSE failed(2)
  /\ UNCHANGED <<runIO, pipeVars, listVars, procVars, gitVars, history, filters>>

\* await this.checkGit()
checkGit ==
  /\ runPc = "checkGit"
  /\ \E available \in BOOLEAN :
       IF available
       THEN runPc' = "checkDestination" /\ exitCode' = exitCode
       ELSE failed(2)
  /\ UNCHANGED <<runIO, pipeVars, listVars, procVars, gitVars, history, filters>>

\* fs.promises.access(destination, fs.constants.W_OK): how it ends for a
\* destination that is absent, not writable, or a writable directory.
accessError(dest) ==
  CASE dest = "absent"     -> "ENOENT"
    [] dest = "unwritable" -> "EACCES"
    [] OTHER               -> "writable"

\* await this.checkDestination(), then the branch on `interactive`.
checkDestination ==
  /\ runPc = "checkDestination"
  /\ \E mkdir \in BOOLEAN :
       LET access == accessError(destination) IN
       IF access = "writable" \/ (access = "ENOENT" /\ mkdir)
       THEN /\ destinationCreated' = (access = "ENOENT")
            /\ destination' = IF access = "ENOENT" THEN "empty" ELSE destination
            /\ runPc' = IF flags.interactive THEN "prompt" ELSE "resolve"
            /\ exitCode' = exitCode
       ELSE /\ destinationCreated' = destinationCreated
            /\ destination' = destination
            /\ failed(2)
  /\ UNCHANGED <<auth, from, flags, options, accountType, requests, repositories,
                 dispatched, warnings, pipeVars, listVars, cancelled, interrupts, gitVars, history, filters>>

\* await this.promptSearchFilters(): each filter ticked becomes true.
promptSearchFilters ==
  /\ runPc = "prompt"
  /\ \E ticked \in SUBSET Filters :
       /\ filters' = ticked
       /\ flags' = [flags EXCEPT
                      !.public       = IF "public" \in ticked THEN "true" ELSE @,
                      !.private      = IF "private" \in ticked THEN "true" ELSE @,
                      !.owner        = IF "owner" \in ticked THEN "true" ELSE @,
                      !.collaborator = IF "collaborator" \in ticked THEN "true" ELSE @,
                      !.member       = IF "member" \in ticked THEN "true" ELSE @]
  /\ runPc' = "resolve"
  /\ UNCHANGED <<auth, from, options, accountType, requests, repositories, dispatched,
                 warnings, destinationCreated, exitCode, pipeVars, listVars, procVars, gitVars, history>>

\* from === this.auth.user: options = this.buildFetchOptions('Authenticated')
resolveOwn ==
  /\ runPc = "resolve"
  /\ from = auth.user
  /\ accountType' = "Authenticated"
  /\ options' = BackupCommand_buildFetchOptions("Authenticated", flags)
  /\ runPc' = "fetch"
  /\ UNCHANGED <<auth, from, flags, requests, repositories, dispatched, warnings,
                 destinationCreated, exitCode, pipeVars, listVars, procVars, gitVars, history, filters>>

\* else: GithubAPI.get.user({ token: this.auth.token, user: from }) is called
\* with one object; getUser takes (token, user).
lookupAccount ==
  /\ runPc = "resolve"
  /\ from # auth.user
  /\ LET call == getUser(Obj(Str(auth.token), Str(from)), Undefined)
     IN IF call.kind = "request"
        THEN /\ requests' = Append(requests, call)
             /\ runPc' = "lookup"
             /\ exitCode' = exitCode
        ELSE /\ requests' = requests
             /\ failed(1)
  /\ UNCHANGED <<auth, from, flags, options, accountType, repositories, dispatched,
                 warnings, destinationCreated, pipeVars, listVars, procVars, gitVars, history, filters>>

\* The lookup settles: getUser throws the API's message, or returns the
\* account and run() calls this.buildFetchOptions(account.type).
lookupSettles ==
  /\ runPc = "lookup"
  /\ \E answer \in LookupAnswers :
       IF answer = "error"
       THEN /\ failed(1)
            /\ UNCHANGED <<accountType, options>>
       ELSE LET built == BackupCommand_buildFetchOptions(answer, flags)
            IN /\ accountType' = answer
               /\ IF built.kind = "error"
                  THEN failed(2) /\ options' = options
                  ELSE /\ options' = built
                       /\ runPc' = "fetch"
                       /\ exitCode' = exitCode
  /\ UNCHANGED <<auth, from, flags, requests, repositories, dispatched, warnings,
                 destinationCreated, pipeVars, listVars, procVars, gitVars, history, filters>>

\* await GithubAPI.get.repositories({ token: this.auth.token, from, options })
fetchRepositories ==
  /\ runPc = "fetch"
  /\ LET call == getRepositories([token |-> Str(auth.token), from |-> Str(from),
                                  options |-> options])
     IN CASE call.kind = "error" ->
               /\ failed(1)
               /\ UNCHANGED <<requests, repositories, listPc>>
          [] call.kind = "request" ->
               /\ requests' = Append(requests, call)
               /\ listPc' = "awaiting"
               /\ runPc' = "listing"
               /\ UNCHANGED <<repositories, exitCode>>
          [] OTHER ->
               /\ repositories' = call
               /\ runPc' = "listed"
               /\ UNCHANGED <<requests, listPc, exitCode>>
  /\ UNCHANGED <<auth, from, flags, options, accountType, dispatched, warnings,
                 destinationCreated, pipeVars, served, acc, result, debugLog, procVars, gitVars, history, filters>>

\* !repositories.length: this.warn('No repositories to backup.'), run() returns.
noRepositories ==
  /\ runPc = "listed"
  /\ repositories.kind = "array"
  /\ Len(repositories.items) = 0
  /\ warnings' = Append(warnings, "No repositories to backup.")
  /\ runPc' = "exited"
  /\ exitCode' = 0
  /\ UNCHANGED <<auth, from, flags, options, accountType, requests, repositories,
                 dispatched, destinationCreated, pipeVars, listVars, procVars, gitVars, history, filters>>

RunNext ==
  \/ checkAuth
  \/ checkGit
  \/ checkDestination
  \/ promptSearchFilters
  \/ resolveOwn
  \/ lookupAccount
  \/ lookupSettles
  \/ fetchRepositories
  \/ noRepositories

RunSpec == RunInit /\ [][RunNext]_vars

(***************************************************************************)
(* BackupCommand.run, from the answer of the listing to the call of        *)
(* this.backup (src/src/commands/backup.js 623-641)                        *)
(***************************************************************************)

\* The repository records a listing can hold, as recurseRepositories
\* normalises them (name, fullName, private).
Pool ==
  { [name |-> "a", fullName |-> "me/a", private |-> FALSE],
    [name |-> "b", fullName |-> "me/b", private |-> TRUE],
    [name |-> "c", fullName |-> "me/c", private |-> FALSE] }

\* The listings: the records of Pool, each at most once, in any order.
Listings ==
  { l \in UNION { [1..n -> Pool] : n \in 0..Cardinality(Pool) } :
      \A i, j \in 1..Len(l) : i # j => l[i] # l[j] }

\* The values of the exclude and match flags.
PatternLists == { <<>>, <<"^a$">>, <<"c">>, <<"^a$", "c">>, <<"^(a|b)$">>, <<"me/">> }

\* The last statement of commons.selectRepositories: the repositories whose
\* fullName was ticked.
selectRepositories(repos, selectedRepos) ==
  Array(SelectSeq(repos.items, LAMBDA repository : repository.fullName \in selectedRepos))

\* An uncaught TypeError (a property read on undefined) rejects run(): the
\* process exits with 1.
typeError == failed(1)

\* The listing has answered `repositories`.
SelectInit ==
  /\ PipeIdle
  /\ listPc = "idle"
  /\ served = <<>>
  /\ acc = <<>>
  /\ auth = LoggedIn
  /\ from = "me"
  /\ \E ex, ma \in PatternLists, c, l \in Tri, i, q \in BOOLEAN :
       /\ ~(i /\ q)
       /\ flags = [NoFilterFlags EXCEPT !.exclude = ex, !.match = ma, !.cleanRefs = c,
                                        !.lfs = l, !.interactive = i, !.quiet = q]
  /\ options = Undefined
  /\ accountType = "Authenticated"
  /\ requests = <<>>
  /\ \E l \in Listings : result = Array(l)
  /\ repositories = result
  /\ dispatched = Undefined
  /\ warnings = <<>>
  /\ destinationCreated = FALSE
  /\ runPc = "listed"
  /\ exitCode = -1
  /\ debugLog = <<>>
  /\ ProcIdle
  /\ GitIdle
  /\ ShellIdle

\* repositories = this.handleInclusions(this.handleExclusions(repositories))
filterRepositories ==
  /\ runPc = "listed"
  /\ repositories.kind = "array"
  /\ Len(repositories.items) > 0
  /\ LET filtered == BackupCommand_handleInclusions(flags,
                       BackupCommand_handleExclusions(flags, repositories))
     IN IF filtered.kind = "error"
        THEN typeError /\ repositories' = repositories
        ELSE /\ repositories' = filtered
             /\ runPc' = "select"
             /\ exitCode' = exitCode
  /\ UNCHANGED <<auth, from, flags, options, accountType, requests, dispatched, warnings,
                 destinationCreated, pipeVars, listVars, procVars, gitVars, history, filters>>

\* if (interactive && repositories.length > 1)
\*   repositories = await this.selectRepositories(repositories)
\* The method awaits the common function and returns nothing.
selectStep ==
  /\ runPc = "select"
  /\ IF ~flags.interactive
     THEN /\ runPc' = "cleanRefs"
          /\ UNCHANGED <<repositories, exitCode>>
     ELSE IF repositories.kind # "array"
     THEN typeError /\ repositories' = repositories
     ELSE /\ runPc' = "cleanRefs"
          /\ exitCode' = exitCode
          /\ IF Len(repositories.items) > 1
             THEN \E selectedRepos \in SUBSET {repo.fullName : repo \in Pool} :
                    /\ selectedRepos # {}
                    /\ repositories' = returnsNothing(selectRepositories(repositories, selectedRepos))
             ELSE repositories' = repositories
  /\ UNCHANGED <<auth, from, flags, options, accountType, requests, dispatched, warnings,
                 destinationCreated, pipeVars, listVars, procVars, gitVars, history, filters>>

\* await this.handleCleanRefOption()
handleCleanRefOption ==
  /\ runPc = "cleanRefs"
  /\ \E answer \in {"Yes", "No"} :
       flags' = [flags EXCEPT !.cleanRefs =
                   IF flags.interactive /\ @ # "unset" THEN @
                   ELSE IF flags.interactive THEN (IF answer = "Yes" THEN "true" ELSE @)
                   ELSE IF @ = "unset" THEN "false"
                   ELSE @]
  /\ runPc' = "lfs"
  /\ UNCHANGED <<auth, from, options, accountType, requests, repositories, dispatched,
                 warnings, destinationCreated, exitCode, pipeVars, listVars, procVars, gitVars, history, filters>>

\* await this.handleLFSOption()
handleLFSOption ==
  /\ runPc = "lfs"
  /\ \E check \in BOOLEAN, shouldIncludeLfs \in {"Yes", "No"} :
       /\ hasLFS' = IF check THEN "true" ELSE "false"
       /\ IF ~check
          THEN /\ warnings' =
                    IF ~flags.quiet /\ (on(flags.lfs) \/ (flags.lfs = "unset" /\ flags.interactive))
                    THEN Append(warnings,
                           "Git LFS is not installed, objects stored through LFS will not be backup.")
                    ELSE warnings
               /\ flags' = [flags EXCEPT !.lfs = "false"]
          ELSE /\ warnings' = warnings
               /\ flags' = [flags EXCEPT !.lfs =
                              IF flags.interactive /\ @ # "unset" THEN @
                              ELSE IF flags.interactive
                                   THEN (IF shouldIncludeLfs = "No" THEN "false" ELSE "true")
                              ELSE IF @ = "unset" THEN "false"
                              ELSE @]
  /\ runPc' = "dispatch"
  /\ UNCHANGED <<auth, from, options, accountType, requests, repositories, dispatched,
                 destinationCreated, exitCode, pipeVars, listVars, procVars, mirror, cleanups, history, filters>>

\* this.debug('backup of', repositories.length, 'repositories'), then
\* await this.backup(repositories) is entered.
startBackup ==
  /\ runPc = "dispatch"
  /\ IF repositories.kind # "array"
     THEN /\ typeError
          /\ UNCHANGED <<dispatched, pipeVars>>
     ELSE /\ dispatched' = repositories
          /\ runPc' = "backup"
          /\ exitCode' = exitCode
          /\ nRepos' = Len(repositories.items)
          /\ pc' = [r \in 1..nRepos' |-> "pending"]
          /\ calls' = [r \in 1..nRepos' |-> [clone |-> 0, lfs |-> 0, refs |-> 0]]
          /\ cloneExit' = [r \in 1..nRepos' |-> "none"]
          /\ cloneDebug' = [r \in 1..nRepos' |-> "none"]
          /\ lfsResult' = [r \in 1..nRepos' |-> "none"]
          /\ refsResult' = [r \in 1..nRepos' |-> "none"]
          /\ warn' = [r \in 1..nRepos' |-> [lfs |-> FALSE, refs |-> FALSE]]
          /\ text' = [r \in 1..nRepos' |-> "none"]
          /\ backupCount' = 0
  /\ UNCHANGED <<auth, from, flags, options, accountType, requests, repositories, warnings,
                 destinationCreated, listVars, procVars, gitVars, history, filters>>

SelectNext ==
  \/ noRepositories
  \/ filterRepositories
  \/ selectStep
  \/ handleCleanRefOption
  \/ handleLFSOption
  \/ startBackup

SelectSpec == SelectInit /\ [][SelectNext]_vars

(***************************************************************************)
(* recurseRepositories (src/src/lib/github-api.js 96-164), entered from    *)
(* GithubAPI.get.repositories by a caller that gives no `from`             *)
(* (src/src/lib/github-api.js 387-390 and 1464-1467)                       *)
(***************************************************************************)

\* repo.permissions of a record of a page: absent, or with pull true or false.
Permissions == {"absent", "pull", "nopull"}

\* repo.name of the n-th record the server sends.
repoName(n) ==
  CASE n = 1 -> "r1"
    [] n = 2 -> "r2"
    [] n = 3 -> "r3"
    [] n = 4 -> "r4"
    [] OTHER -> "r5"

\* The n-th record the server sends, with the given permissions.
rawRepo(n, perm) ==
  [name |-> repoName(n), full_name |-> "me/" \o repoName(n), private |-> FALSE,
   permissions |-> perm, clone_path |-> "/me/" \o repoName(n) \o ".git"]

\* The number of records of the pages received so far.
RECURSIVE recordsIn(_)
recordsIn(pages) ==
  IF pages = <<>> THEN 0 ELSE Len(Head(pages).data) + recordsIn(Tail(pages))

\* The URL of the k-th page of the listing.
pageUrl(k) ==
  CASE k <= 1 -> base \o "/user/repos"
    [] k = 2 -> base \o "/user/repos?page=2"
    [] k = 3 -> base \o "/user/repos?page=3"
    [] k = 4 -> base \o "/user/repos?page=4"
    [] OTHER -> base \o "/user/repos?page=5"

\* res.headers.link.split(','): the link-values of the header, each a target
\* and a rel (the URLs GitHub sends hold no unescaped comma). No header is <<>>.
LinkHeaders(k) ==
  { <<>>,
    << [target |-> pageUrl(1), rel |-> "first"], [target |-> pageUrl(k - 1), rel |-> "prev"] >>,
    << [target |-> pageUrl(k + 1), rel |-> "next"], [target |-> pageUrl(MaxPages), rel |-> "last"] >>,
    << [target |-> pageUrl(k - 1), rel |-> "prev"], [target |-> pageUrl(k + 1), rel |-> "next"] >> }

\* .find((link) => link.indexOf('rel="next"') !== -1): the index of the
\* first link-value with rel="next", 0 if there is none.
nextLink(link) ==
  IF \E i \in 1..Len(link) : link[i].rel = "next"
  THEN Min({i \in 1..Len(link) : link[i].rel = "next"})
  ELSE 0

\* A variant of the reduce that keeps every record.
reduceReposKeepingAll(data, token) ==
  [i \in 1..Len(data) |->
     [fullName |-> data[i].full_name, name |-> data[i].name, private |-> data[i].private,
      urls |-> [https |-> "https://" \o token \o "@github.com" \o data[i].clone_path]]]

\* The reduce of recurseRepositories: a record is skipped if it has
\* permissions without pull; the others are normalised, the token put
\* before github.com in the clone URL.
RECURSIVE reduceRepos(_, _)
reduceRepos(data, token) ==
  IF data = <<>> THEN <<>>
  ELSE LET repo == Head(data)
       IN (IF repo.permissions = "nopull"
           THEN <<>>
           ELSE << [fullName |-> repo.full_name, name |-> repo.name, private |-> repo.private,
                    urls |-> [https |-> "https://" \o token \o "@github.com" \o repo.clone_path]] >>)
          \o reduceRepos(Tail(data), token)

\* if (repos.length !== res.data.length)
\*   debug(`user have pull right over ${repos.length}/${res.data.length} repos)`)
pullRightReport(repos, data) ==
  IF Len(repos) # Len(data)
  THEN << [kept |-> Len(repos), fetched |-> Len(data)] >>
  ELSE <<>>

\* A variant of the accumulation that forgets the earlier pages.
concatForgetting(fetched, repos) == repos

\* repositories.concat(repos)
concat(fetched, repos) == fetched \o repos

\* A caller is about to call GithubAPI.get.repositories({ token, options }).
ListInit ==
  /\ PipeIdle
  /\ ListIdle
  /\ auth = LoggedIn
  /\ from = ""
  /\ \E pu \in {"unset", "true"}, ow \in Tri :
       flags = [NoFilterFlags EXCEPT !.public = pu, !.owner = ow]
  /\ options = buildFetchOptions("Authenticated", flags)
  /\ accountType = "Authenticated"
  /\ requests = <<>>
  /\ repositories = Undefined
  /\ dispatched = Undefined
  /\ warnings = <<>>
  /\ destinationCreated = FALSE
  /\ runPc = "fetch"
  /\ exitCode = -1
  /\ ProcIdle
  /\ GitIdle
  /\ ShellIdle

\* The request in flight is answered with a page: its records are reduced
\* and accumulated; with a next link the next page is requested without
\* query parameters, without one the accumulated records are returned.
FetchSucceeds ==
  /\ listPc = "awaiting"
  /\ \E n \in 0..(MaxRecords - recordsIn(served)) :
       \E perms \in [1..n -> Permissions] :
         \E link \in IF Len(served) + 1 < MaxPages
                     THEN LinkHeaders(Len(served) + 1)
                     ELSE {l \in LinkHeaders(Len(served) + 1) : nextLink(l) = 0} :
           LET data == [i \in 1..n |-> rawRepo(recordsIn(served) + i, perms[i])]
               repos == reduceRepos(data, auth.token)
           IN /\ served' = Append(served, [ok |-> TRUE, data |-> data, link |-> link])
              /\ debugLog' = debugLog \o pullRightReport(repos, data)
              /\ IF nextLink(link) # 0
                 THEN /\ requests' = Append(requests,
                                       [kind |-> "request", api |-> "get.repositories",
                                        url |-> link[nextLink(link)].target,
                                        params |-> Undefined,
                                        authorization |-> "token " \o auth.token])
                      /\ acc' = concat(acc, repos)
                      /\ UNCHANGED <<listPc, result, repositories, runPc>>
                 ELSE /\ result' = Array(concat(acc, repos))
                      /\ repositories' = result'
                      /\ listPc' = "returned"
                      /\ runPc' = "listed"
                      /\ UNCHANGED <<requests, acc>>
  /\ UNCHANGED <<auth, from, flags, options, accountType, dispatched, warnings,
                 destinationCreated, exitCode, pipeVars, procVars, gitVars, history, filters>>

\* A variant of the handling of a failed fetch that rejects.
afterFetchFailureThrows(fetched) == [kind |-> "error", message |-> "fetch failed"]

\* The catch of recurseRepositories: res stays {}, so there is no data and
\* no link header, and repositories.concat([]) is returned.
afterFetchFailure(fetched) == Array(concat(fetched, <<>>))

\* The request in flight fails (network error, or a status axios rejects):
\* the error is logged and the records accumulated so far are returned.
FetchFails ==
  /\ listPc = "awaiting"
  /\ served' = Append(served, [ok |-> FALSE, data |-> <<>>, link |-> <<>>])
  /\ result' = afterFetchFailure(acc)
  /\ listPc' = "returned"
  /\ IF result'.kind = "error"
     THEN failed(1) /\ repositories' = repositories
     ELSE /\ repositories' = result'
          /\ runPc' = "listed"
          /\ exitCode' = exitCode
  /\ UNCHANGED <<auth, from, flags, options, accountType, requests, dispatched, warnings,
                 destinationCreated, pipeVars, acc, debugLog, procVars, gitVars, history, filters>>

ListNext ==
  \/ fetchRepositories
  \/ FetchSucceeds
  \/ FetchFails

ListSpec == ListInit /\ [][ListNext]_vars

(***************************************************************************)
(* The BackupCommand with graceful shutdown                                *)
(* (src/src/lib/github-api.js 593-1545): run() registers shutdown() for    *)
(* the signals and for the 'exit' event, then proceeds as the command of   *)
(* backup.js does, its filter methods returning their values.              *)
(***************************************************************************)

\* A variant of the cleanup decision that forgets who created the directory.
removesWhenEmpty(created, dest) == dest = "empty"

\* shutdown(): fs.rmdirSync(destination) is tried if this run created the
\* destination, and succeeds if the directory is empty.
removes(created, dest) == created /\ dest = "empty"

\* shutdown(): process.exit(130) is called in the catch of rmdirSync and when
\* the destination was not created by this run; not after a removal.
exits(created, dest) == ~removes(created, dest)

\* initGracefulShutdown, _init, checkAuth and checkGit are done: run() is
\* about to check the destination.
ShutdownInit ==
  /\ PipeIdle
  /\ ListIdle
  /\ auth = LoggedIn
  /\ from = "me"
  /\ \E n \in 1..MaxParallel : flags = [NoFilterFlags EXCEPT !.parallel = n]
  /\ options = Undefined
  /\ accountType = "none"
  /\ requests = <<>>
  /\ repositories = Undefined
  /\ dispatched = Undefined
  /\ warnings = <<>>
  /\ destinationCreated = FALSE
  /\ runPc = "checkDestination"
  /\ exitCode = -1
  /\ destination \in {"absent", "unwritable", "empty", "nonEmpty"}
  /\ cancelled = FALSE
  /\ interrupts = 0
  /\ GitIdle
  /\ ShellIdle

\* run() from the resolution of the options to the call of this.backup
\* (github-api.js 1441-1489): it touches neither the destination nor
\* destinationCreated; it ends in an error (lookup, 'No repositories to
\* backup.') or hands some repositories to backup() with the clean-refs and
\* lfs flags settled.
prepare ==
  /\ runPc \in {"prompt", "resolve"}
  /\ \E n \in 0..MaxBackups, l, c \in {"true", "false"} :
       IF n = 0
       THEN /\ failed(2)
            /\ UNCHANGED <<flags, pipeVars>>
       ELSE /\ flags' = [flags EXCEPT !.lfs = l, !.cleanRefs = c]
            /\ runPc' = "backup"
            /\ exitCode' = exitCode
            /\ nRepos' = n
            /\ pc' = [r \in 1..n |-> "pending"]
            /\ calls' = [r \in 1..n |-> [clone |-> 0, lfs |-> 0, refs |-> 0]]
            /\ cloneExit' = [r \in 1..n |-> "none"]
            /\ cloneDebug' = [r \in 1..n |-> "none"]
            /\ lfsResult' = [r \in 1..n |-> "none"]
            /\ refsResult' = [r \in 1..n |-> "none"]
            /\ warn' = [r \in 1..n |-> [lfs |-> FALSE, refs |-> FALSE]]
            /\ text' = [r \in 1..n |-> "none"]
            /\ backupCount' = 0
  /\ UNCHANGED <<auth, from, options, accountType, requests, repositories, dispatched,
                 warnings, destinationCreated, listVars, procVars, gitVars, history, filters>>

\* run() returns; process.stdin.resume() keeps the process alive.
runSettles ==
  /\ runPc = "backupComplete"
  /\ runPc' = "settled"
  /\ UNCHANGED <<runIO, exitCode, pipeVars, listVars, procVars, gitVars, history, filters>>

\* SIGINT, SIGUSR1 or SIGUSR2 arrives while the process lives: shutdown().
Interrupt ==
  /\ runPc \notin {"failed", "exited"}
  /\ interrupts < MaxInterrupts
  /\ interrupts' = interrupts + 1
  /\ cancelled' = TRUE
  /\ destination' = IF removes(destinationCreated, destination) THEN "absent" ELSE destination
  /\ IF exits(destinationCreated, destination)
     THEN runPc' = "exited" /\ exitCode' = 130
     ELSE UNCHANGED <<runPc, exitCode>>
  /\ UNCHANGED <<runIO, pipeVars, listVars, gitVars, history, filters>>

\* The process exits, with the code of the failed run (process.exit in the
\* error handler of the CLI) or with 0 once run() has returned and stdin
\* has ended: the 'exit' event calls shutdown().
ExitEvent ==
  /\ runPc \in {"failed", "settled"}
  /\ runPc' = "exited"
  /\ cancelled' = TRUE
  /\ destination' = IF removes(destinationCreated, destination) THEN "absent" ELSE destination
  /\ exitCode' = IF exits(destinationCreated, destination) THEN 130
                 ELSE IF runPc = "failed" THEN exitCode ELSE 0
  /\ UNCHANGED <<runIO, pipeVars, listVars, interrupts, gitVars, history, filters>>

ShutdownNext ==
  \/ checkDestination
  \/ prepare
  \/ PipeStep
  \/ runSettles
  \/ Interrupt
  \/ ExitEvent

ShutdownSpec == ShutdownInit /\ [][ShutdownNext]_vars

(***************************************************************************)
(* commons.handleExclusions and commons.handleInclusions applied to a      *)
(* collection (src/src/commons.js 239-306)                                 *)
(***************************************************************************)

\* A collection and the exclude and match flags are given.
FilterInit ==
  /\ PipeIdle
  /\ ListIdle
  /\ ProcIdle
  /\ GitIdle
  /\ ShellIdle
  /\ auth = LoggedIn
  /\ from = "me"
  /\ \E ex, ma \in PatternLists : flags = [NoFilterFlags EXCEPT !.exclude = ex, !.match = ma]
  /\ options = Undefined
  /\ accountType = "Authenticated"
  /\ requests = <<>>
  /\ \E l \in Listings : repositories = Array(l)
  /\ dispatched = repositories
  /\ warnings = <<>>
  /\ destinationCreated = FALSE
  /\ runPc = "given"
  /\ exitCode = -1

\* commons.handleExclusions.call(this, repositories)
applyExclusions ==
  /\ runPc = "given"
  /\ repositories' = handleExclusions(flags, repositories)
  /\ runPc' = "excluded"
  /\ UNCHANGED <<auth, from, flags, options, accountType, requests, dispatched, warnings,
                 destinationCreated, exitCode, pipeVars, listVars, procVars, gitVars, history, filters>>

\* commons.handleInclusions.call(this, repositories), on the given collection
\* or on what handleExclusions returned.
applyInclusions ==
  /\ runPc \in {"given", "excluded"}
  /\ repositories' = handleInclusions(flags, repositories)
  /\ runPc' = IF runPc = "given" THEN "included" ELSE "filtered"
  /\ UNCHANGED <<auth, from, flags, options, accountType, requests, dispatched, warnings,
                 destinationCreated, exitCode, pipeVars, listVars, procVars, gitVars, history, filters>>

FilterNext ==
  \/ applyExclusions
  \/ applyInclusions

FilterSpec == FilterInit /\ [][FilterNext]_vars

(***************************************************************************)
(* commons.buildFetchOptions applied to the flags and an account type      *)
(* (src/src/commons.js 156-230)                                            *)
(***************************************************************************)

\* The types buildFetchOptions can be given: the three it handles and one
\* it does not.
AccountTypes == {"Authenticated", "User", "Organization", "Bot"}

\* The filter flags and the account type are given.
ResolveInit ==
  /\ PipeIdle
  /\ ListIdle
  /\ ProcIdle
  /\ GitIdle
  /\ ShellIdle
  /\ auth = LoggedIn
  /\ from = "me"
  /\ \E pu, pr \in {"unset", "true"}, ow, co, me \in Tri :
       flags = [NoFilterFlags EXCEPT !.public = pu, !.private = pr, !.owner = ow,
                                     !.collaborator = co, !.member = me]
  /\ options = Undefined
  /\ accountType \in AccountTypes
  /\ requests = <<>>
  /\ repositories = Undefined
  /\ dispatched = Undefined
  /\ warnings = <<>>
  /\ destinationCreated = FALSE
  /\ runPc = "build"
  /\ exitCode = -1

\* commons.buildFetchOptions.call(this, type)
build ==
  /\ runPc = "build"
  /\ LET built == buildFetchOptions(accountType, flags)
     IN IF built.kind = "error"
        THEN failed(2) /\ options' = options
        ELSE /\ options' = built
             /\ runPc' = "built"
             /\ exitCode' = exitCode
  /\ UNCHANGED <<auth, from, flags, accountType, requests, repositories, dispatched, warnings,
                 destinationCreated, pipeVars, listVars, procVars, gitVars, history, filters>>

ResolveNext == build

ResolveSpec == ResolveInit /\ [][ResolveNext]_vars

(***************************************************************************)
(* LfsSpec: the end of run() in the command whose filter helpers return    *)
(* their arrays (lib/github-api.js 1476-1491): handleLFSOption probes git  *)
(* lfs and settles flags.lfs, then backup(repositories) runs the pipeline. *)
(* handleLFSOption and backup are the same text as in commands/backup.js.  *)
(***************************************************************************)

LfsInit ==
  /\ PipeIdle
  /\ ListIdle
  /\ ProcIdle
  /\ GitIdle
  /\ ShellIdle
  /\ auth = LoggedIn
  /\ from = "me"
  /\ \E c \in {"true", "false"}, l \in Tri, i, q \in BOOLEAN :
       /\ ~(i /\ q)
       /\ flags = [NoFilterFlags EXCEPT !.cleanRefs = c, !.lfs = l, !.interactive = i,
                                        !.quiet = q, !.parallel = MaxBackups]
  /\ options = Undefined
  /\ accountType = "Authenticated"
  /\ requests = <<>>
  /\ \E l \in Listings : Len(l) \in 1..MaxBackups /\ repositories = Array(l)
  /\ dispatched = Undefined
  /\ warnings = <<>>
  /\ destinationCreated = FALSE
  /\ runPc = "lfs"
  /\ exitCode = -1

LfsNext ==
  \/ handleLFSOption
  \/ startBackup
  \/ PipeStep
  \/ runReturns

LfsSpec == LfsInit /\ [][LfsNext]_vars

(***************************************************************************)
(* CleanSpec: BackupCommand.cleanRefs run on one mirror, once or again.    *)
(* Git.cleanRefs lists the refs with `git show-ref`, keeps those whose     *)
(* name contains '/pull/' and deletes them one by one with                 *)
(* `git update-ref -d`.                                                    *)
(***************************************************************************)

\* The refs a mirror may hold, in the order git show-ref prints them.
RefOrder ==
  << "refs/heads/master", "refs/heads/pull/fix", "refs/pull/1/head", "refs/pull/2/merge",
     "refs/tags/v1" >>

RefPool == { RefOrder[i] : i \in 1..Len(RefOrder) }

\* _ref.indexOf('/pull/') !== -1
containsPull(ref) ==
  ref \in {"refs/heads/pull/fix", "refs/pull/1/head", "refs/pull/2/merge"}

isIn(m, ref) == ref \in m

\* The refs of the stdout of `git show-ref`, one per line.
showRef(m) == SelectSeq(RefOrder, LAMBDA ref : isIn(m, ref))

\* How `git show-ref` may exit: 1 when the repository has no ref, 0 when it
\* printed some, 128 when git failed.
ShowRefExits(m) == IF m = {} THEN {"1", "128"} ELSE {"0", "128"}

\* refsToDel: `refs` stays '' unless show-ref succeeded.
refsToDel(exit, m) == IF exit = "0" THEN SelectSeq(showRef(m), containsPull) ELSE <<>>

\* A variant that deletes the first ref found and stops.
deletedRefsFirstOnly(toDel, failAt) ==
  { toDel[i] : i \in { j \in 1..Len(toDel) : j = 1 } }

\* The number of times `git update-ref -d` is run, one ref each time, when
\* the failAt-th run fails (0: none fails).
updateRefCalls(toDel, failAt) == IF failAt = 0 THEN Len(toDel) ELSE failAt

\* The refs `git update-ref -d` was run on with success, when the failAt-th
\* deletion fails (0: none fails).
deletedRefs(toDel, failAt) ==
  { toDel[i] : i \in 1..(IF failAt = 0 THEN Len(toDel) ELSE failAt - 1) }

\* A variant of update-ref -d that leaves the refs where they are.
updateRefKeeps(m, gone) == m

\* The mirror after `git update-ref -d` removed the refs of `gone`.
updateRef(m, gone) == m \ gone

\* What happened inside Git.cleanRefs.
refsEvent(exit, toDel, failAt) ==
  CASE exit = "1"     -> "showRefExit1"
    [] exit = "128"   -> "showRefFailed"
    [] failAt > 0     -> "deleteFailed"
    [] toDel = <<>>   -> "noPull"
    [] OTHER          -> "pullDeleted"

CleanInit ==
  /\ PipeIdle
  /\ ListIdle
  /\ ProcIdle
  /\ hasLFS = "unset"
  /\ mirror \in SUBSET RefPool
  /\ cleanups = <<>>
  /\ ShellIdle
  /\ auth = LoggedIn
  /\ from = "me"
  /\ \E q \in BOOLEAN : flags = [NoFilterFlags EXCEPT !.cleanRefs = "true", !.quiet = q]
  /\ options = Undefined
  /\ accountType = "Authenticated"
  /\ requests = <<>>
  /\ repositories = Undefined
  /\ dispatched = Undefined
  /\ warnings = <<>>
  /\ destinationCreated = FALSE
  /\ runPc = "mapLimit"
  /\ exitCode = -1

\* One call of BackupCommand.cleanRefs(repository) on the mirror.
runCleanRefs ==
  /\ Len(cleanups) < MaxCleanups
  /\ \E exit \in ShowRefExits(mirror) :
       LET toDel == refsToDel(exit, mirror) IN
       \E failAt \in 0..Len(toDel) :
         LET ev   == refsEvent(exit, toDel, failAt)
             gone == deletedRefs(toDel, failAt)
         IN /\ mirror' = updateRef(mirror, gone)
            /\ cleanups' = Append(cleanups,
                 [ event    |-> ev,
                   before   |-> mirror,
                   deleted  |-> gone,
                   calls    |-> updateRefCalls(toDel, failAt),
                   after    |-> mirror',
                   returned |-> cleanGithubRefs(ev),
                   warning  |-> cleanRefs(ev),
                   text     |-> IF flags.quiet THEN "none" ELSE cleanRefsText(ev) ])
  /\ UNCHANGED <<runVars, pipeVars, listVars, procVars, hasLFS, history, filters>>

CleanNext == runCleanRefs

CleanSpec == CleanInit /\ [][CleanNext]_vars

(***************************************************************************)
(* ParseSpec: BackupCommand._init, this.parse(BackupCommand) turning the   *)
(* command line into this.flags. The parallel flag is a string flag whose  *)
(* parse function is Joi.attempt(input, Joi.number().default(8)            *)
(* .failover(8)).                                                          *)
(***************************************************************************)

\* A JavaScript number, as the fraction num/den.
Num(n, d) == [kind |-> "number", num |-> n, den |-> d]

NotANumber == [kind |-> "error", message |-> "must be a number"]

\* static flags.parallel.default
parallelDefault == Num(8, 1)

\* What may follow --parallel on the command line.
ParallelInputs == {"1", "4", "0", "-3", "2.5", "a", ""}

\* Joi.number() on a string: the number the string converts to, or the
\* validation error.
joiNumber(input) ==
  CASE input = "1"   -> Num(1, 1)
    [] input = "4"   -> Num(4, 1)
    [] input = "0"   -> Num(0, 1)
    [] input = "-3"  -> Num(-3, 1)
    [] input = "2.5" -> Num(5, 2)
    [] OTHER         -> NotANumber

\* flags.parallel.parse(input): failover replaces a validation error by the
\* default; the flag not given takes the default of the flag.
parseParallel(input) ==
  IF input.kind = "undefined" THEN parallelDefault
  ELSE IF joiNumber(input.v).kind = "error" THEN parallelDefault
  ELSE joiNumber(input.v)

ParseInit ==
  /\ PipeIdle
  /\ ListIdle
  /\ ProcIdle
  /\ GitIdle
  /\ ShellIdle
  /\ auth = LoggedIn
  /\ from = "me"
  /\ \E p \in {Undefined} \cup {Str(t) : t \in ParallelInputs},
        c \in {"unset", "true"}, l \in Tri, i, q \in BOOLEAN :
       /\ ~(i /\ q)
       /\ flags = [NoFilterFlags EXCEPT !.parallel = p, !.cleanRefs = c, !.lfs = l,
                                        !.interactive = i, !.quiet = q]
  /\ options = Undefined
  /\ accountType = "none"
  /\ requests = <<>>
  /\ repositories = Undefined
  /\ dispatched = Undefined
  /\ warnings = <<>>
  /\ destinationCreated = FALSE
  /\ runPc = "argv"
  /\ exitCode = -1

\* this._init(): this.flags is what this.parse(BackupCommand) returned.
parseFlags ==
  /\ runPc = "argv"
  /\ flags' = [flags EXCEPT !.parallel = parseParallel(@)]
  /\ runPc' = "init"
  /\ UNCHANGED <<auth, from, options, accountType, requests, repositories, dispatched,
                 warnings, destinationCreated, exitCode, pipeVars, listVars, procVars, gitVars, history, filters>>

ParseNext == parseFlags

ParseSpec == ParseInit /\ [][ParseNext]_vars

(***************************************************************************)
(* AuthSpec: the commands login, logout and backup run one after the other *)
(* on the same configuration file. `auth` is config.get('auth'). Of a      *)
(* backup run that passed checkAuth only the fact that it went on is kept: *)
(* the rest of run() reads this.auth and never writes the configuration.   *)
(***************************************************************************)

\* The tokens typed at the prompt of login (the prompt refuses the empty one).
Tokens == {"t0k3n", "0th3r", "r3v0k3d"}

\* The tokens the service knows.
ValidTokens == {"t0k3n", "0th3r"}

\* The `login` of the account GET /user answers for a token.
loginOf(token) == IF token = "t0k3n" THEN "me" ELSE "you"

\* A variant of logout that leaves the configuration as it is.
logoutKeeps(a) == a

\* LogoutCommand.run: config.set('auth', {})
logoutAuth(a) == LoggedOut

\* A variant of the catch of login that keeps the stored authentication.
afterLoginFailureKeeps(a) == a

\* LoginCommand.run, catch: config.set('auth', {})
afterLoginFailure(a) == LoggedOut

\* LoginCommand.run, try: config.set('auth', { token, user: user.login })
afterLoginSuccess(token, user) == [token |-> token, user |-> user]

AuthInit ==
  /\ PipeIdle
  /\ ListIdle
  /\ ProcIdle
  /\ GitIdle
  /\ ShellIdle
  /\ auth \in {LoggedOut, LoggedIn}
  /\ from = "me"
  /\ flags = NoFilterFlags
  /\ options = Undefined
  /\ accountType = "none"
  /\ requests = <<>>
  /\ repositories = Undefined
  /\ dispatched = Undefined
  /\ warnings = <<>>
  /\ destinationCreated = FALSE
  /\ runPc = "shell"
  /\ exitCode = -1

\* What a command leaves in the history.
ended(cmd, outcome, before, after, code, sent) ==
  [cmd |-> cmd, outcome |-> outcome, before |-> before, after |-> after, exit |-> code,
   requests |-> sent]

\* gbulk login: LoginCommand.run.
login ==
  /\ runPc = "shell"
  /\ Len(history) < MaxCommands
  /\ \E confirm \in {"Yes", "No"}, token \in Tokens, reachable \in BOOLEAN :
       IF auth.user # "" /\ confirm = "No"
       THEN /\ auth' = auth
            /\ warnings' = <<>>
            /\ requests' = <<>>
            /\ exitCode' = 0
            /\ history' = Append(history, ended("login", "kept", auth, auth', 0, 0))
       ELSE LET call == getUser(Str(token), Undefined) IN
            /\ requests' = <<call>>
            /\ IF call.kind = "request" /\ reachable /\ token \in ValidTokens
               THEN /\ auth' = afterLoginSuccess(token, loginOf(token))
                    /\ warnings' = <<>>
                    /\ exitCode' = 0
                    /\ history' = Append(history, ended("login", "loggedIn", auth, auth', 0, 1))
               ELSE /\ auth' = afterLoginFailure(auth)
                    /\ warnings' = IF auth.user # "" THEN <<auth.user \o " was logged out">>
                                   ELSE <<>>
                    /\ exitCode' = 2
                    /\ history' = Append(history, ended("login", "failed", auth, auth', 2, 1))
  /\ UNCHANGED <<from, flags, options, accountType, repositories, dispatched,
                 destinationCreated, runPc, pipeVars, listVars, procVars, gitVars, filters>>

\* gbulk logout: LogoutCommand.run.
logout ==
  /\ runPc = "shell"
  /\ Len(history) < MaxCommands
  /\ auth' = logoutAuth(auth)
  /\ warnings' = <<>>
  /\ requests' = <<>>
  /\ exitCode' = 0
  /\ history' = Append(history, ended("logout", "loggedOut", auth, auth', 0, 0))
  /\ UNCHANGED <<from, flags, options, accountType, repositories, dispatched,
                 destinationCreated, runPc, pipeVars, listVars, procVars, gitVars, filters>>

\* gbulk backup is started: run() stands before this.checkAuth().
gbulkBackup ==
  /\ runPc = "shell"
  /\ Len(history) < MaxCommands
  /\ runPc' = "init"
  /\ exitCode' = -1
  /\ warnings' = <<>>
  /\ requests' = <<>>
  /\ UNCHANGED <<auth, from, flags, options, accountType, repositories, dispatched,
                 destinationCreated, pipeVars, listVars, procVars, gitVars, history, filters>>

\* The backup command is over: stopped by checkAuth, or gone on to checkGit
\* and whatever follows.
backupEnds ==
  /\ runPc \in {"failed", "checkGit"}
  /\ history' = Append(history,
       ended("backup", IF runPc = "failed" THEN "notAuthenticated" ELSE "authenticated",
             auth, auth, exitCode, Len(requests)))
  /\ runPc' = "shell"
  /\ UNCHANGED <<runIO, exitCode, pipeVars, listVars, procVars, gitVars, filters>>

AuthNext ==
  \/ login
  \/ logout
  \/ gbulkBackup
  \/ checkAuth
  \/ backupEnds

AuthSpec == AuthInit /\ [][AuthNext]_vars

(***************************************************************************)
(* HangSpec: the pipeline when the external process of one repository      *)
(* never returns. Git.clone, Git.LFS.fetch and Git.cleanRefs await execa   *)
(* without a timeout: the iterator of the repository stays at its await    *)
(* ("hung") and keeps its place among the iterators mapLimit counts.       *)
(***************************************************************************)

someHung == \E h \in Repos : pc[h] = "hung"

\* The external process of repository r will never return.
Hangs(r) ==
  /\ runPc = "mapLimit"
  /\ pc[r] \in {"clone", "fetchLFS", "cleanRefs"}
  /\ ~someHung
  /\ pc' = [pc EXCEPT ![r] = "hung"]
  /\ UNCHANGED <<runVars, nRepos, calls, cloneExit, cloneDebug, lfsResult, refsResult, warn, text,
                 backupCount, listVars, procVars, gitVars, history, filters>>

\* The external process repository r waits for returns.
Settles(r) ==
  /\ r \in Repos
  /\ CloneSucceeds(r) \/ CloneFails(r) \/ LFSSettles(r) \/ CleanRefsSettles(r)

\* backup(repositories) is entered with up to MaxBackups repositories.
HangInit == Init /\ nRepos \in 1..MaxBackups

HangNext ==
  \/ Next
  \/ \E r \in Repos : Hangs(r)

\* Every external process that is not hung returns in the end, and the
\* event loop runs every continuation that is ready.
HangSpec ==
  /\ HangInit
  /\ [][HangNext]_vars
  /\ WF_vars(backup)
  /\ WF_vars(BackupResolves)
  /\ \A r \in 1..MaxBackups : WF_vars(Settles(r))

(***************************************************************************)
(* Claims about the pipeline (Spec)                                        *)
(***************************************************************************)

cloned(r) == cloneExit[r] = "0"

cloneFailed(r) == cloneExit[r] \in CloneExits \ {"0"}

pipelineOver == runPc \in {"backupComplete", "exited"}

\* A stage of ref-cleanup failed: the refs could not be listed, or a ref
\* could not be deleted (show-ref exit 1 means there is no ref at all).
refsStageFailed(r) == refsResult[r] \in {"showRefFailed", "deleteFailed"}

\* C1. Pipeline isolation: once a clone has failed, the pipeline is never
\* stuck before its end, and at its end every repository had its clone started
\* and, when its clone succeeded, its enabled LFS and ref-cleanup stages run.
C1_PipelineIsolation ==
  (\E x \in Repos : cloneFailed(x)) =>
    /\ runPc = "mapLimit" => ENABLED PipeStep
    /\ pipelineOver =>
         \A r \in Repos :
           /\ calls[r].clone = 1
           /\ cloned(r) => /\ on(flags.lfs) => calls[r].lfs = 1
                           /\ on(flags.cleanRefs) => calls[r].refs = 1

\* C1 witness: the pipeline is over, one clone failed, and a sibling that was
\* started later went through clone and both optional stages.
C1_Witness ==
  /\ pipelineOver
  /\ on(flags.lfs) /\ on(flags.cleanRefs)
  /\ \E x, y \in Repos :
       /\ x < y
       /\ cloneFailed(x)
       /\ cloned(y) /\ calls[y].lfs = 1 /\ calls[y].refs = 1

\* C2. Every repository is attempted exactly once: no operation of a
\* repository is ever invoked twice, a repository that still waits can still
\* be reached (the pipeline is not over and not stuck), and at the end of the
\* pipeline every clone was started exactly once.
C2_AttemptedExactlyOnce ==
  /\ \A r \in Repos : calls[r].clone <= 1 /\ calls[r].lfs <= 1 /\ calls[r].refs <= 1
  /\ \A r \in Repos :
       pc[r] = "pending" /\ runPc # "backup" => runPc = "mapLimit" /\ ENABLED PipeStep
  /\ pipelineOver => \A r \in Repos : calls[r].clone = 1

\* C2 witness: the pipeline is over with a failed clone, a failed LFS fetch
\* and a failed ref-cleanup among its repositories.
C2_Witness ==
  /\ pipelineOver
  /\ \E r \in Repos : cloneFailed(r)
  /\ \E r \in Repos : lfsResult[r] = "failed"
  /\ \E r \in Repos : refsResult[r] = "deleteFailed"

anyFatal == \E r \in Repos : cloneFailed(r)

anyWarning == \E r \in Repos : warn[r].lfs \/ warn[r].refs

\* C4. When the run has ended, the exit code is 0 exactly when no clone failed
\* and no warning was raised, and 1 otherwise.
C4_ExitCodeReflectsOutcomes ==
  runPc = "exited" => exitCode = (IF anyFatal \/ anyWarning THEN 1 ELSE 0)

\* C5. Stage order per repository: LFS fetch and ref-cleanup only after a
\* successful clone, ref-cleanup only after the LFS fetch (when enabled) has
\* ended, and nothing after a failed clone, which ends the repository.
C5_StageOrder ==
  \A r \in Repos :
    /\ calls[r].lfs > 0 => cloned(r)
    /\ calls[r].refs > 0 => cloned(r) /\ (on(flags.lfs) => lfsResult[r] # "none")
    /\ cloneFailed(r) => calls[r].lfs = 0 /\ calls[r].refs = 0 /\ pc[r] = "done"
    /\ pc[r] \in {"fetchLFS", "cleanRefs"} => cloned(r)

\* C5 witness: one repository went through the three stages, another one
\* ended at its failed clone.
C5_Witness ==
  \E x, y \in Repos :
    /\ cloned(x) /\ lfsResult[x] # "none" /\ refsResult[x] # "none"
    /\ cloneFailed(y)

\* C6. With both optional stages enabled, a cloned repository whose iterator
\* has ended had its ref-cleanup run whatever the LFS fetch did, and each
\* warning flag is set exactly when its own stage failed.
C6_IndependentWarnings ==
  on(flags.lfs) /\ on(flags.cleanRefs) =>
    \A r \in Repos :
      cloned(r) /\ pc[r] = "done" =>
        /\ calls[r].refs = 1
        /\ warn[r].lfs <=> (lfsResult[r] = "failed")
        /\ warn[r].refs <=> refsStageFailed(r)

\* The requests of one API among those sent so far.
requestsTo(api) == SelectSeq(requests, LAMBDA req : req.api = api)

\* run() has got past the call of GithubAPI.get.repositories.
listingAsked == runPc \in {"listing", "listed", "exited"}

\* C8: when the source account is the token owner, a run that has asked for
\* the listing has sent one request to /user/repos whose query parameters
\* are the visibility and affiliation resolved from the run's flags.
C8_ListingRequestCarriesOptions ==
  (listingAsked /\ from = auth.user) =>
    /\ Len(requestsTo("get.repositories")) = 1
    /\ requestsTo("get.repositories")[1].url = base \o "/user/repos"
    /\ requestsTo("get.repositories")[1].params
         = buildFetchOptions("Authenticated", flags).params

\* run() has got past the resolution of the fetch options.
optionsResolved == runPc \in {"fetch", "listing", "listed", "exited"}

\* C9: once the options are resolved, one account lookup has been sent if
\* the source account is not the token owner and none if it is; a lookup
\* asks for the source account by name with the stored token; for the token
\* owner the type used is Authenticated, otherwise User or Organization.
C9_AccountLookup ==
  /\ optionsResolved =>
       /\ Len(requestsTo("get.user")) = (IF from # auth.user THEN 1 ELSE 0)
       /\ from = auth.user => accountType = "Authenticated"
       /\ from # auth.user => accountType \in {"User", "Organization"}
  /\ \A i \in 1..Len(requests) :
       requests[i].api = "get.user" =>
         /\ requests[i].url = base \o "/users/" \o from
         /\ requests[i].authorization = "token " \o auth.token

\* The parts of C9 the run keeps: when a lookup is made, and which type is used.
C9_LookupMadeExactlyWhenNeeded ==
  optionsResolved =>
    /\ Len(requestsTo("get.user")) = (IF from # auth.user THEN 1 ELSE 0)
    /\ from = auth.user => accountType = "Authenticated"
    /\ from # auth.user => accountType \in {"User", "Organization"}

\* What the exclusion filter and then the inclusion filter keep of the
\* listing's answer.
filteredListing == handleInclusions(flags, handleExclusions(flags, result))

\* C7: run() hands each step's result to the next: once the listing's
\* non-empty answer is filtered, `repositories` holds the records that pass
\* the exclusion and then the inclusion filter, in interactive mode with more
\* than one record left a subset of them, the selection phase does not fail,
\* and what backup() is given is `repositories`.
C7_DispatchedIsFiltered ==
  (result.kind = "array" /\ Len(result.items) > 0) =>
    /\ runPc # "failed"
    /\ runPc = "select" => repositories = filteredListing
    /\ runPc \in {"cleanRefs", "lfs", "dispatch", "backup"} =>
         /\ repositories.kind = "array"
         /\ IF flags.interactive /\ Len(filteredListing.items) > 1
            THEN \E selectedRepos \in SUBSET {repo.fullName : repo \in Pool} :
                   repositories = selectRepositories(filteredListing, selectedRepos)
            ELSE repositories = filteredListing
    /\ runPc = "backup" => dispatched = repositories

\* The records the pages keep, page after page, each page in its own order.
RECURSIVE retainedRecords(_)
retainedRecords(pages) ==
  IF pages = <<>> THEN <<>>
  ELSE SelectSeq([i \in 1..Len(Head(pages).data) |->
                    LET repo == Head(pages).data[i]
                    IN [fullName |-> repo.full_name, name |-> repo.name,
                        private |-> repo.private, keep |-> repo.permissions # "nopull",
                        urls |-> [https |-> "https://" \o auth.token \o "@github.com"
                                              \o repo.clone_path]]],
                 LAMBDA rec : rec.keep)
       \o retainedRecords(Tail(pages))

\* The listing's answer without the marks of retainedRecords.
unmarked(recs) ==
  [i \in 1..Len(recs) |-> [fullName |-> recs[i].fullName, name |-> recs[i].name,
                           private |-> recs[i].private, urls |-> recs[i].urls]]

allFetched == \A i \in 1..Len(served) : served[i].ok

\* C10: nothing is returned while a page is awaited; when all the fetches of
\* a chain succeeded, what is returned is the retained records of the pages
\* in page order and within-page order, each page was requested once, at
\* the URL of the next link of the page before it, and the last page is the
\* one page without a next link.
C10_PaginationConcatenates ==
  /\ listPc # "returned" => result = Undefined
  /\ (listPc = "returned" /\ allFetched) =>
       /\ result = Array(unmarked(retainedRecords(served)))
       /\ Len(requestsTo("get.repositories")) = Len(served)
       /\ \A i \in 1..Len(served) :
            /\ (nextLink(served[i].link) = 0) <=> (i = Len(served))
            /\ i < Len(served) =>
                 requestsTo("get.repositories")[i + 1].url
                   = served[i].link[nextLink(served[i].link)].target

\* Three pages were fetched, one of two records, a record without pull
\* right was skipped, and records of two pages were returned.
C10_Witness ==
  /\ listPc = "returned"
  /\ allFetched
  /\ Len(served) = 3
  /\ \E i \in 1..Len(served) : Len(served[i].data) = 2
  /\ \E i \in 1..Len(served) : \E j \in 1..Len(served[i].data) :
       served[i].data[j].permissions = "nopull"
  /\ Len(result.items) = 2
  /\ result.items[1].name = "r1"
  /\ result.items[2].name = "r3"

\* The last response was a failure.
lastFetchFailed == served # <<>> /\ ~served[Len(served)].ok

\* C11: when the fetch of page k fails, the listing returns to its caller
\* without an error, it has requested pages 1..k only, and what it returns
\* is the retained records of pages 1..k-1 (the empty list when k = 1).
C11_FailedFetchTruncates ==
  lastFetchFailed =>
    /\ listPc = "returned"
    /\ runPc = "listed"
    /\ exitCode = -1
    /\ Len(requestsTo("get.repositories")) = Len(served)
    /\ result = Array(unmarked(retainedRecords(SubSeq(served, 1, Len(served) - 1))))
    /\ repositories = result
    /\ Len(served) = 1 => result = Array(<<>>)

\* The third fetch failed after two pages that both kept a record; and a
\* first fetch can fail.
C11_Witness ==
  /\ lastFetchFailed
  /\ Len(served) = 3
  /\ Len(result.items) = 2
  /\ served[1].data # <<>>
  /\ served[2].data # <<>>

\* The records of all the pages received, in the order received.
RECURSIVE fetchedRecords(_)
fetchedRecords(pages) ==
  IF pages = <<>> THEN <<>> ELSE Head(pages).data \o fetchedRecords(Tail(pages))

\* The reports owed for the pages: one per page that dropped a record,
\* giving how many of its records were kept.
RECURSIVE droppedReports(_)
droppedReports(pages) ==
  IF pages = <<>> THEN <<>>
  ELSE LET data == Head(pages).data
           dropped == Cardinality({i \in 1..Len(data) : data[i].permissions = "nopull"})
       IN (IF dropped > 0
           THEN << [kept |-> Len(data) - dropped, fetched |-> Len(data)] >>
           ELSE <<>>)
          \o droppedReports(Tail(pages))

\* C12: what the listing returns holds no record whose permissions lack
\* pull, it holds every other record received, and for every page that
\* dropped records the numbers kept and received were reported.
C12_PermissionFilter ==
  /\ listPc = "returned" /\ result.kind = "array" =>
       LET fetched == fetchedRecords(served)
           names == {result.items[i].name : i \in 1..Len(result.items)}
       IN \A i \in 1..Len(fetched) :
            (fetched[i].name \in names) <=> (fetched[i].permissions # "nopull")
  /\ debugLog = droppedReports(served)

\* Two pages were answered, a record without pull right was dropped from the
\* second and reported, a record without permissions field and a record
\* with pull right were kept.
C12_Witness ==
  /\ listPc = "returned"
  /\ Len(served) = 2
  /\ allFetched
  /\ \E j \in 1..Len(served[2].data) : served[2].data[j].permissions = "nopull"
  /\ \E j \in 1..Len(served[1].data) : served[1].data[j].permissions = "absent"
  /\ \E i \in 1..2 : \E j \in 1..Len(served[i].data) : served[i].data[j].permissions = "pull"
  /\ debugLog # <<>>
  /\ Len(result.items) = 2

\* C13: a handled interrupt removes the destination exactly when this run
\* created it and it is empty; otherwise the destination is as it was.
C13_CleanupDecision ==
  [][interrupts' = interrupts + 1 =>
       /\ (destination' = "absent" /\ destination # "absent")
            <=> (destinationCreated /\ destination = "empty")
       /\ ~(destinationCreated /\ destination = "empty") => destination' = destination]_vars

\* An interrupt removed the destination this run had created.
C13_Witness ==
  /\ interrupts = 1
  /\ destinationCreated
  /\ destination = "absent"

\* C14: once an interrupt has been handled the process has terminated with
\* status 130.
C14_InterruptExits130 ==
  interrupts > 0 => (runPc = "exited" /\ exitCode = 130)

\* Every repository was backed up without failure or warning.
cleanBackup ==
  /\ nRepos > 0
  /\ \A r \in Repos : pc[r] = "done" /\ cloned(r) /\ ~warn[r].lfs /\ ~warn[r].refs

\* C15: a run that got no interrupt and backed up every repository without
\* warning or failure has, once the process is over, status 0, no
\* cancellation reported and its destination in place.
C15_CleanRunExitsZero ==
  (runPc = "exited" /\ interrupts = 0 /\ cleanBackup) =>
    (exitCode = 0 /\ ~cancelled /\ destination # "absent")

\* C16: after an interrupt has been handled no clone is started.
C16_NoNewWorkAfterInterrupt ==
  [][interrupts > 0 =>
       \A r \in 1..nRepos' :
         pc'[r] = "clone" => (r \in 1..nRepos /\ pc[r] = "clone")]_vars

\* Some pattern of the list matches the short name of the repository.
anyMatches(patterns, repo) == \E i \in 1..Len(patterns) : regExpTest(patterns[i], repo.name)

\* Every pattern of the list matches the short name of the repository.
allMatch(patterns, repo) == \A i \in 1..Len(patterns) : regExpTest(patterns[i], repo.name)

\* The repositories of a collection, as a set.
members(repos) == {repos.items[i] : i \in 1..Len(repos.items)}

\* C17: with a non-empty exclude list handleExclusions drops a repository
\* iff some exclude pattern matches its short name; with a non-empty match
\* list handleInclusions keeps a repository iff every match pattern matches
\* its short name.
C17_ExcludeAnyMatchAll ==
  /\ (runPc = "excluded" /\ flags.exclude # <<>>) =>
       \A repo \in members(dispatched) :
         (repo \notin members(repositories)) <=> anyMatches(flags.exclude, repo)
  /\ (runPc = "included" /\ flags.match # <<>>) =>
       \A repo \in members(dispatched) :
         (repo \in members(repositories)) <=> allMatch(flags.match, repo)

\* Of a, b, c the match list ["^a$", "c"] kept nothing, although each
\* pattern matches one of them.
C17_Witness ==
  /\ runPc = "included"
  /\ flags.match = <<"^a$", "c">>
  /\ Len(dispatched.items) = 3
  /\ repositories = Array(<<>>)

\* The composition of the common functions: exclude first, match second,
\* keeps in the given order the repositories no exclude pattern matches and
\* every match pattern matches.
CommonsComposition ==
  runPc = "filtered" =>
    repositories = Array(SelectSeq(dispatched.items,
                     LAMBDA repo : ~anyMatches(flags.exclude, repo) /\ allMatch(flags.match, repo)))

\* The common functions return the collection they are given when their
\* list is empty.
CommonsNoOp ==
  /\ (runPc = "excluded" /\ flags.exclude = <<>>) => repositories = dispatched
  /\ (runPc = "included" /\ flags.match = <<>>) => repositories = dispatched

\* C18: after run() has filtered the listing's answer, exclude first and
\* match second, `repositories` holds, in the listing's order, the
\* repositories no exclude pattern matches and every match pattern matches.
C18_FilterComposition ==
  (result.kind = "array" /\ Len(result.items) > 0 /\ runPc \in {"select", "failed"}) =>
    repositories = Array(SelectSeq(result.items,
                     LAMBDA repo : ~anyMatches(flags.exclude, repo) /\ allMatch(flags.match, repo)))

\* C19: with no exclude and no match pattern the filters of run() hand back
\* the collection they were given.
C19_EmptyListsPassThrough ==
  (result.kind = "array" /\ Len(result.items) > 0 /\ runPc = "select"
     /\ flags.exclude = <<>> /\ flags.match = <<>>) =>
    repositories = result

\* The affiliation parameter for the affiliation flags that are not
\* explicitly false, in the order owner, collaborator, member (the API's
\* name of member being organization_member).
notFalseAffiliation ==
  join((IF flags.owner # "false" THEN <<"owner">> ELSE <<>>)
         \o (IF flags.collaborator # "false" THEN <<"collaborator">> ELSE <<>>)
         \o (IF flags.member # "false" THEN <<"organization_member">> ELSE <<>>),
       ",")

noAffiliationEnabled == ~on(flags.owner) /\ ~on(flags.collaborator) /\ ~on(flags.member)

\* C20: for the type Authenticated, when no affiliation flag is explicitly
\* true the resolved affiliation is owner, collaborator, member without the
\* flags that are explicitly false.
C20_DefaultAffiliation ==
  (runPc = "built" /\ accountType = "Authenticated" /\ noAffiliationEnabled) =>
    options.params.affiliation = notFalseAffiliation

\* owner was disabled, collaborator and member were left unset.
C20_Witness ==
  /\ runPc = "built"
  /\ accountType = "Authenticated"
  /\ flags.owner = "false"
  /\ flags.collaborator = "unset"
  /\ flags.member = "unset"
  /\ options.params.affiliation = "collaborator,organization_member"

someAffiliationEnabled == on(flags.owner) \/ on(flags.collaborator) \/ on(flags.member)

\* The affiliation parameter for the affiliation flags that are explicitly
\* true, in the order owner, collaborator, member.
enabledAffiliation ==
  join((IF on(flags.owner) THEN <<"owner">> ELSE <<>>)
         \o (IF on(flags.collaborator) THEN <<"collaborator">> ELSE <<>>)
         \o (IF on(flags.member) THEN <<"organization_member">> ELSE <<>>),
       ",")

C22_Visibility ==
  (runPc = "built" /\ accountType = "Authenticated") =>
    /\ (flags.public = "true" /\ flags.private # "true") => options.params.visibility = "public"
    /\ (flags.private = "true" /\ flags.public # "true") => options.params.visibility = "private"
    /\ (flags.public = "true" /\ flags.private = "true") => options.params.visibility = "all"
    /\ (flags.public # "true" /\ flags.private # "true") => options.params.visibility = "all"

\* --public --private was given and resolved to all.
C22_Witness ==
  /\ runPc = "built"
  /\ accountType = "Authenticated"
  /\ flags.public = "true"
  /\ flags.private = "true"
  /\ options.params.visibility = "all"

\* C23: for the type User the selector is member when member is true and
\* owner is not, owner when owner is true and member is not, all otherwise,
\* whatever collaborator, public and private are.
C23_UserSelector ==
  (runPc = "built" /\ accountType = "User") =>
    /\ (flags.member = "true" /\ flags.owner # "true") => options.params = [type |-> "member"]
    /\ (flags.owner = "true" /\ flags.member # "true") => options.params = [type |-> "owner"]
    /\ (flags.owner = "true" /\ flags.member = "true") => options.params = [type |-> "all"]
    /\ (flags.owner # "true" /\ flags.member # "true") => options.params = [type |-> "all"]

\* owner and member were both enabled, with collaborator and public set.
C23_Witness ==
  /\ runPc = "built"
  /\ accountType = "User"
  /\ flags.owner = "true"
  /\ flags.member = "true"
  /\ flags.collaborator = "true"
  /\ flags.public = "true"
  /\ options.params.type = "all"

\* C24: for the type Organization the selector is public only for public
\* without private and member, private only for private without public and
\* member, member only for member without public and private, all otherwise.
C24_OrganizationSelector ==
  (runPc = "built" /\ accountType = "Organization") =>
    LET pu == flags.public = "true"
        pr == flags.private = "true"
        me == flags.member = "true"
    IN /\ options.params.type = "public" <=> (pu /\ ~pr /\ ~me)
       /\ options.params.type = "private" <=> (pr /\ ~pu /\ ~me)
       /\ options.params.type = "member" <=> (me /\ ~pu /\ ~pr)
       /\ options.params.type = "all" <=> ~(\/ (pu /\ ~pr /\ ~me)
                                            \/ (pr /\ ~pu /\ ~me)
                                            \/ (me /\ ~pu /\ ~pr))

\* public and member were both enabled and resolved to all.
C24_Witness ==
  /\ runPc = "built"
  /\ accountType = "Organization"
  /\ flags.public = "true"
  /\ flags.member = "true"
  /\ flags.private = "unset"
  /\ options.params.type = "all"

\* The affiliation strings that name the member affiliation by the API's
\* token organization_member.
WithOrganizationMember ==
  { "organization_member", "owner,organization_member", "collaborator,organization_member",
    "owner,collaborator,organization_member" }

\* The affiliation strings that do not name the member affiliation.
WithoutMember == { "", "owner", "collaborator", "owner,collaborator" }

\* The member affiliation is among those resolved for the type Authenticated.
memberResolved ==
  IF someAffiliationEnabled THEN flags.member = "true" ELSE flags.member # "false"

\* C25 as stated: for the types User and Organization a member selector is
\* sent as organization_member.
C25_RemapForOtherAccounts ==
  (runPc = "built" /\ accountType \in {"User", "Organization"}
     /\ flags.member = "true" /\ flags.owner # "true"
     /\ flags.public # "true" /\ flags.private # "true") =>
    options.params.type = "organization_member"

\* C25, amended: member is re-mapped to organization_member in the
\* affiliation of the type Authenticated; for the types User and
\* Organization the member selector is sent as member.
C25_RemapForAuthenticated ==
  runPc = "built" =>
    /\ accountType = "Authenticated" =>
         /\ memberResolved => options.params.affiliation \in WithOrganizationMember
         /\ ~memberResolved => options.params.affiliation \in WithoutMember
    /\ accountType \in {"User", "Organization"} =>
         /\ options.params.type \in {"all", "owner", "member", "public", "private"}
         /\ (flags.member = "true" /\ flags.owner # "true"
               /\ flags.public # "true" /\ flags.private # "true") =>
              options.params.type = "member"

\* member alone was enabled for the token owner's own listing.
C25_Witness ==
  /\ runPc = "built"
  /\ accountType = "Authenticated"
  /\ flags.member = "true"
  /\ flags.owner = "unset"
  /\ flags.collaborator = "unset"
  /\ options.params.affiliation = "organization_member"

\* run() has got past checkDestination.
destinationChecked == runPc \notin {"init", "checkGit", "checkDestination"}

\* C26: a run whose account type is not handled, or whose destination can
\* neither be written to nor created, has ended in error; and a run that
\* ended in error has sent no listing request and started no clone.
C26_ConfigErrorAborts ==
  /\ accountType \notin {"none", "Authenticated", "User", "Organization"} =>
       (runPc = "failed" /\ exitCode = 2)
  /\ (destinationChecked /\ destination \in {"absent", "unwritable"}) =>
       (runPc = "failed" /\ exitCode = 2)
  /\ runPc = "failed" =>
       /\ requestsTo("get.repositories") = <<>>
       /\ listPc = "idle"
       /\ dispatched = Undefined
       /\ nRepos = 0

\* The lookup answered an account that is neither a user nor an organization.
C26_Witness ==
  /\ runPc = "failed"
  /\ accountType = "Bot"
  /\ Len(requestsTo("get.user")) = 1
  /\ destination \in {"empty", "nonEmpty"}

\* The run-level warning of handleLFSOption.
lfsWarning == "Git LFS is not installed, objects stored through LFS will not be backup."

\* Git.LFS.fetch was invoked for some repository of the run.
lfsInvoked == \E r \in 1..nRepos : calls[r].lfs > 0

\* C27 (states): Git.LFS.fetch was invoked only with flags.lfs on and a probe
\* that found git lfs; after a probe that did not find it, no repository had
\* Git.LFS.fetch invoked and the run warned at most once.
C27_LfsOnlyWhenProbed ==
  /\ lfsInvoked => (on(flags.lfs) /\ hasLFS = "true")
  /\ hasLFS = "false" =>
       /\ ~lfsInvoked
       /\ Len(warnings) <= 1
       /\ \A r \in 1..nRepos : ~warn[r].lfs

\* C27 (steps): handleLFSOption leaves flags.lfs on only if the probe found
\* git lfs and either the flag was given as true or, in interactive mode
\* with the flag not given, the question was asked; without the flag and
\* without interactive mode it is off.
C27_LfsFlagSettled ==
  (runPc = "lfs" /\ runPc' = "dispatch") =>
     /\ on(flags'.lfs) =>
          /\ hasLFS' = "true"
          /\ on(flags.lfs) \/ (flags.interactive /\ flags.lfs = "unset")
     /\ (flags.lfs = "unset" /\ ~flags.interactive) => flags'.lfs = "false"
     /\ Len(warnings') <= Len(warnings) + 1

\* C27: the LFS fetch is invoked for a repository only if the run-level flag
\* is enabled (by flag, or by the answer Yes in interactive mode; off by
\* default) and the probe found git lfs; when the probe fails no LFS fetch is
\* invoked in the run and at most one warning is emitted.
C27_LfsGate == [](C27_LfsOnlyWhenProbed) /\ [][C27_LfsFlagSettled]_vars

\* In interactive mode the probe found git lfs and a repository had its LFS
\* objects fetched.
C27_Witness ==
  /\ lfsInvoked
  /\ flags.interactive
  /\ hasLFS = "true"
  /\ runPc = "mapLimit"

\* The refs of m whose name contains /pull/.
pullRefs(m) == { ref \in m : containsPull(ref) }

\* git show-ref answered (exit 0 or 1) in the cleanup c.
listed(c) == c.event # "showRefFailed"

\* C28: a cleanup of a mirror without any ref containing /pull/ raises no
\* warning and reports "No ref to clean"; "Refs cleaned" is reported only
\* when at least one ref was deleted. Stated for the cleanups in which
\* git show-ref answered.
C28_NoRefToClean ==
  \A i \in 1..Len(cleanups) :
    listed(cleanups[i]) =>
      /\ pullRefs(cleanups[i].before) = {} =>
           /\ ~cleanups[i].warning
           /\ ~flags.quiet => cleanups[i].text = "No ref to clean"
      /\ cleanups[i].text = "Refs cleaned" => cleanups[i].deleted # {}

\* The run listed the refs (or found there were none) and every deletion
\* it tried worked.
succeeded(c) == c.event \in {"pullDeleted", "noPull", "showRefExit1"}

\* C29: the cleanup that follows a cleanup which succeeded on the same mirror
\* deletes no ref, leaves the refs of the mirror as they were and raises no
\* warning.
C29_Idempotent ==
  \A i \in 1..(Len(cleanups) - 1) :
    succeeded(cleanups[i]) =>
      /\ cleanups[i + 1].deleted = {}
      /\ cleanups[i + 1].after = cleanups[i + 1].before
      /\ cleanups[i + 1].before = cleanups[i].after
      /\ ~cleanups[i + 1].warning
      /\ cleanups[i + 1].returned \in {"true", "false"}

\* A first cleanup deleted pull refs and a second one ran on what it left.
C29_Witness ==
  /\ Len(cleanups) >= 2
  /\ cleanups[1].event = "pullDeleted"
  /\ cleanups[1].deleted # {}
  /\ cleanups[2].before # {}

\* Listing the refs failed, or deleting one of them failed, in the cleanup
\* of repository r.
refsCleanupFailed(r) == refsResult[r] \in {"showRefFailed", "deleteFailed"}

\* C30: a repository whose ref-cleanup failed, in listing the refs or in
\* deleting one, has its refs warning set and is not reported as
\* "Refs cleaned", and the run has not ended in error.
C30_CleanupFailureWarns ==
  \A r \in 1..nRepos :
    refsCleanupFailed(r) =>
      /\ warn[r].refs
      /\ text[r] # "Refs cleaned"
      /\ runPc # "failed"

\* C30, for the failures of `git update-ref -d` alone.
DeleteFailureWarns ==
  \A r \in 1..nRepos :
    refsResult[r] = "deleteFailed" =>
      /\ warn[r].refs
      /\ text[r] # "Refs cleaned"
      /\ runPc # "failed"

\* What clone() left about repository r: the text of its spinner and the
\* message given to this.debug.
cloneOutcome(r) == <<text[r], cloneDebug[r]>>

\* C31: a clone that failed with exit code 128 is told apart, in what
\* clone() reports about the repository, from every clone that failed
\* otherwise, with quiet on or off.
C31_DestinationExistsDistinct ==
  \A r, s \in 1..nRepos :
    (cloneExit[r] = "128" /\ cloneExit[s] = "other") => cloneOutcome(r) # cloneOutcome(s)

\* Quiet mode, one clone failed on the destination and another failed
\* otherwise.
C31_Witness ==
  /\ flags.quiet
  /\ \E r, s \in 1..nRepos :
       cloneExit[r] = "128" /\ cloneExit[s] = "other" /\ pc[r] = "done" /\ pc[s] = "done"

\* The listing answered an array without any repository.
emptyListing == repositories.kind = "array" /\ Len(repositories.items) = 0

\* C32: a run whose listing held no repository starts no clone and is over
\* with an exit code other than 0.
C32_NothingToBackupExitsNonZero ==
  (emptyListing /\ runPc \notin {"listed"}) =>
    /\ dispatched = Undefined
    /\ nRepos = 0
    /\ runPc \in {"failed", "exited"}
    /\ exitCode # 0

\* A positive integer.
positiveInteger(n) == n.kind = "number" /\ n.den = 1 /\ n.num > 0

\* The text is the decimal writing of a positive integer.
validParallel(input) ==
  input.kind = "string" /\ joiNumber(input.v).kind = "number" /\ positiveInteger(joiNumber(input.v))

\* C33: the parsing of the command line leaves in flags.parallel a positive
\* integer: the number given when it is one, and the default 8 for a text
\* that is not a number, or is zero, negative or not an integer.
C33_ParallelIsPositiveInteger ==
  [][(runPc = "argv" /\ runPc' = "init") =>
       /\ positiveInteger(flags'.parallel)
       /\ flags'.parallel = IF validParallel(flags.parallel)
                            THEN joiNumber(flags.parallel.v)
                            ELSE parallelDefault]_vars

\* C33, for the texts that are no number at all and for the valid ones.
ParallelFallback ==
  [][(runPc = "argv" /\ runPc' = "init"
      /\ (validParallel(flags.parallel) \/ flags.parallel.kind = "undefined"
          \/ joiNumber(flags.parallel.v).kind = "error")) =>
       /\ positiveInteger(flags'.parallel)
       /\ flags'.parallel = IF validParallel(flags.parallel)
                            THEN joiNumber(flags.parallel.v)
                            ELSE parallelDefault]_vars

\* A no-variant of an affiliation flag was given.
someAffiliationDisabled ==
  flags.owner = "false" \/ flags.collaborator = "false" \/ flags.member = "false"

\* C34: when a no-variant of an affiliation flag is given, every affiliation
\* flag that is not defined counts as true: the resolved affiliation holds
\* every flag that is not explicitly false.
C34_NoVariantAssumesTrue ==
  (runPc = "built" /\ accountType = "Authenticated" /\ someAffiliationDisabled) =>
    options.params.affiliation = notFalseAffiliation

\* The repositories whose iterator has ended after a successful clone.
backedUp == { r \in Repos : cloned(r) /\ pc[r] = "done" }

\* The counter moves by single steps upwards.
countsOneByOne == backupCount' \in {backupCount, backupCount + 1}

\* C35 as stated: under every interleaving the counter rises one by one and
\* always equals the number of repositories backed up so far, those with a
\* warning included; so it does when the pipeline has ended.
C35_CounterLosesNoUpdate ==
  [](backupCount = Cardinality(backedUp)) /\ [][countsOneByOne]_vars

\* C35 when not in quiet mode: under every interleaving the counter rises
\* one by one and always equals the number of repositories backed up so
\* far, those with a warning included.
C35_CounterWhenShown ==
  [](~flags.quiet => backupCount = Cardinality(backedUp)) /\ [][countsOneByOne]_vars

\* Two repositories in flight together were both backed up, one of them with
\* a warning, and the pipeline has ended.
C35_Witness ==
  /\ ~flags.quiet
  /\ flags.parallel >= 2
  /\ runPc \in {"backupComplete", "exited"}
  /\ backupCount >= 2
  /\ \E r \in Repos : cloned(r) /\ (warn[r].lfs \/ warn[r].refs)

\* The login that made command k of the history succeeded.
loginSucceeded(k) == history[k].cmd = "login" /\ history[k].outcome = "loggedIn"

\* C36: logout leaves the stored authentication without token and user, and
\* every backup run after it, as long as no login has succeeded in between,
\* was stopped by checkAuth with the error exit and had sent no request.
C36_LogoutStopsBackups ==
  \A i \in 1..Len(history) :
    history[i].cmd = "logout" =>
      /\ history[i].after = LoggedOut
      /\ \A j \in (i + 1)..Len(history) :
           (history[j].cmd = "backup" /\ \A k \in (i + 1)..(j - 1) : ~loginSucceeded(k)) =>
             /\ history[j].outcome = "notAuthenticated"
             /\ history[j].exit = 2
             /\ history[j].requests = 0

\* A user was logged in, logged out, and then ran a backup.
C36_Witness ==
  /\ Len(history) >= 2
  /\ history[1].cmd = "logout"
  /\ history[1].before = LoggedIn
  /\ history[2].cmd = "backup"

\* The stored authentication is empty or a token with the login of its account.
consistent(a) == a = LoggedOut \/ (a.token \in ValidTokens /\ a.user = loginOf(a.token))

\* C40: the stored authentication is empty or a token paired with the login
\* the service gave for it; a login that failed left it empty, a login
\* ended by the answer No left it as it was.
C40_StoredAuthConsistent ==
  /\ consistent(auth)
  /\ \A i \in 1..Len(history) :
       /\ consistent(history[i].after)
       /\ (history[i].cmd = "login" /\ history[i].outcome = "failed") =>
            history[i].after = LoggedOut
       /\ (history[i].cmd = "login" /\ history[i].outcome = "kept") =>
            history[i].after = history[i].before

\* A logged-in user failed a login, and later another account logged in.
C40_Witness ==
  /\ Len(history) >= 2
  /\ history[1].cmd = "login"
  /\ history[1].outcome = "failed"
  /\ history[1].before = LoggedIn
  /\ history[2].cmd = "login"
  /\ history[2].outcome = "loggedIn"
  /\ auth.user = "you"

\* C37: a cleanup that succeeded deleted exactly the refs containing /pull/,
\* each by its own update-ref: none of them is left, and every other ref is
\* still there; the refs without /pull/ survive every cleanup.
C37_DeletesExactlyPullRefs ==
  \A i \in 1..Len(cleanups) :
    LET c == cleanups[i] IN
    /\ c.before \ pullRefs(c.before) \subseteq c.after
    /\ c.after \subseteq c.before
    /\ succeeded(c) =>
         /\ pullRefs(c.after) = {}
         /\ c.after = c.before \ pullRefs(c.before)
         /\ c.deleted = pullRefs(c.before)
         /\ c.calls = Cardinality(pullRefs(c.before))

\* A mirror with a branch, a tag and two pull refs was cleaned.
C37_Witness ==
  /\ Len(cleanups) >= 1
  /\ cleanups[1].event = "pullDeleted"
  /\ cleanups[1].before =
       {"refs/heads/master", "refs/pull/1/head", "refs/pull/2/merge", "refs/tags/v1"}
  /\ mirror = {"refs/heads/master", "refs/tags/v1"}

\* Repository r is not the one whose operation never returns, in a run with
\* at least two workers and one operation hung.
besideHung(r) == r \in Repos /\ someHung /\ pc[r] # "hung" /\ flags.parallel >= 2

filterFlag(fl, filter) ==
  CASE filter = "public"       -> fl.public
    [] filter = "private"      -> fl.private
    [] filter = "owner"        -> fl.owner
    [] filter = "collaborator" -> fl.collaborator
    [] filter = "member"       -> fl.member

\* The step of run() that is promptSearchFilters.
promptAnswered == runPc = "prompt" /\ runPc' = "resolve"

\* C39: promptSearchFilters leaves each of the flags public, private, owner,
\* collaborator and member true exactly when it was ticked in the prompt.
C39_SelectionReplacesFlags ==
  [][promptAnswered =>
       \A f \in Filters : on(filterFlag(flags', f)) <=> f \in filters']_vars

\* C39, for the filters that were ticked and for those that were not true
\* on the command line.
TickedFiltersAreTrue ==
  [][promptAnswered =>
       \A f \in Filters :
         /\ f \in filters' => on(filterFlag(flags', f))
         /\ ~on(filterFlag(flags, f)) => (on(filterFlag(flags', f)) <=> f \in filters')]_vars

=============================================================================
